---------------------------- MODULE Spec2Model ----------------------------
(***************************************************************************)
(* Token lifecycle of the uploader-server repository.                      *)
(*                                                                         *)
(* The strict token service (src/token-service/server.js) and the view     *)
(* token server (src/unnamed/part_000) are request handlers over one       *)
(* shared expiring key-value store (Redis).  Every handler is an async     *)
(* function: it runs atomically from one `await redis.<cmd>` to the next,  *)
(* so each action below is one such segment together with the store        *)
(* command it issues.  Requests of different clients interleave at these   *)
(* points, and the store's clock may advance (and keys expire) between     *)
(* any two of them.                                                        *)
(***************************************************************************)
EXTENDS Integers, Sequences, FiniteSets, Bags, TLC

(***************************************************************************)
(* Bounds of the model.                                                    *)
(***************************************************************************)
\* the clock runs from 0 to MaxTime
MaxTime == 2
\* the strict service accepts at most MaxIssues requests that call
\* issuePurchaseToken, the view server at most MaxRequests requests that write to
\* the store (such a request draws at most one identifier, so these bound
\* uuidv4's draws and the requests in flight too); requests that are rejected or
\* only read are not bounded.  A store write that is rejected counts as one more
\* request; rejected reads are not bounded.
MaxIssues == 3
MaxRequests == 4
\* how many uploads the uploader accepts
MaxUploads == 2

(***************************************************************************)
(* Values.  JavaScript's null/undefined are Null; strings are strings.     *)
(***************************************************************************)
Null == "null"

\* uuidv4(): a drawn identifier is fresh: it differs from all identifiers drawn
\* before and from every string a client made up ("junk").  The identifiers
\* drawn for purchase tokens are named p1, p2, ..., those for view tokens v1, v2, ...
PurchaseUuids == <<"p1", "p2", "p3", "p4", "p5", "p6">>
ViewUuids == <<"v1", "v2", "v3", "v4", "v5", "v6">>
\* the identifier uuidv4() returns after n earlier draws of the same kind
uuidv4(names, n) == names[n + 1]
Minted(names, n) == {names[i] : i \in 1..n}
Junk == "junk"

\* `manual_${Date.now()}` and `razorpay_${Date.now()}`
ManualNames == <<"manual_0", "manual_1", "manual_2", "manual_3", "manual_4", "manual_5">>
RazorpayNames == <<"razorpay_0", "razorpay_1", "razorpay_2", "razorpay_3", "razorpay_4", "razorpay_5">>
ManualId(t) == ManualNames[t + 1]
RazorpayId(t) == RazorpayNames[t + 1]

\* payment identifiers a client or the payment provider sends
Pids == {"pay_1"}
Events == {"payment.captured"}
Setups == {"a", "b"}

(***************************************************************************)
(* Configuration (environment).                                            *)
(***************************************************************************)
ADMIN_SECRET == "changeme"
RAZORPAY_WEBHOOK_SECRET == "whsec"
PUBLIC_SETUP_URL == "setup.html"
PUBLIC_VIEW_BASE == "view.html"
\* PURCHASE_TTL_SECONDS=2 and VIEW_TTL_SECONDS=3 in the environment
PURCHASE_TTL == 2
VIEW_TTL == 3

(***************************************************************************)
(* Store keys.                                                             *)
(***************************************************************************)
purchaseKey(token) == <<"purchase", token>>
paymentKey(paymentId) == <<"payment", paymentId>>
viewKey(t) == <<"view", t>>

(***************************************************************************)
(* JSON.  A stored string is either the serialisation of an object or a    *)
(* string that does not parse.                                             *)
(***************************************************************************)
ParseError == [error |-> "SyntaxError"]
Corrupt == <<"text", [garbage |-> "{not json"]>>
JSON_stringify(obj) == <<"json", obj>>
JSON_parse(s) == IF s[1] = "json" THEN s[2] ELSE ParseError

\* Object.assign(target, source): the source's fields win
ObjectAssign(target, source) ==
    [f \in DOMAIN target \cup DOMAIN source |->
        IF f \in DOMAIN source THEN source[f] ELSE target[f]]

\* encodeURIComponent leaves the characters of a uuid unchanged
encodeURIComponent(s) == s
SetupClaimUrl(token) == <<PUBLIC_SETUP_URL, "#token=", encodeURIComponent(token)>>
ViewUrl(token) == <<PUBLIC_VIEW_BASE, "?token=", encodeURIComponent(token)>>

\* crypto.createHmac('sha256', secret).update(body).digest('hex')
Hmac(secret, body) == <<"hmac-sha256", secret, body>>

(***************************************************************************)
(* The expiring key-value store.  A store is a function from the keys      *)
(* present to [val, exp]: the key is gone once the clock reaches exp.      *)
(***************************************************************************)
\* a reply of redis.get(k): nil, or the string stored
NilReply == [nil |-> TRUE]
Bulk(v) == [nil |-> FALSE, val |-> v]
Get(store, k) == IF k \in DOMAIN store THEN Bulk(store[k].val) ELSE NilReply

\* an EXISTS that always answers 1
ExistsAlways(store, k) == 1

\* redis.exists(k)
Exists(store, k) == IF k \in DOMAIN store THEN 1 ELSE 0

Put(store, k, v, e) ==
    [x \in DOMAIN store \cup {k} |-> IF x = k THEN [val |-> v, exp |-> e] ELSE store[x]]

\* redis.set(k, v, 'EX', ttl) at time t
SetEx(store, k, v, ttl, t) == Put(store, k, v, t + ttl)

\* a conditional write that always replies OK
SetNxReplyOk(store, k) == "OK"

\* redis.set(k, v, 'EX', ttl, 'NX') at time t: the reply, then the store
SetNxReply(store, k) == IF k \in DOMAIN store THEN Null ELSE "OK"
SetExNx(store, k, v, ttl, t) ==
    IF k \in DOMAIN store THEN store ELSE Put(store, k, v, t + ttl)

\* the keys that are still alive at time t
Expire(store, t) ==
    LET live == {k \in DOMAIN store : store[k].exp > t}
    IN  [k \in live |-> store[k]]


(***************************************************************************)
(* The state.                                                              *)
(***************************************************************************)
VARIABLES
    redis,     \* the store
    now,       \* the store's clock, which is also Date.now()
    uuids,     \* how many identifiers uuidv4() has drawn: [purchase, view]
    accepted,  \* how many writing requests have been accepted (plus how many store
               \* writes have been rejected)
    inflight,  \* the bag of handlers that stand between two store commands
    out,       \* the response the last step sent, with its request
    calls,     \* history: the issuePurchaseToken calls that have returned, each with
               \* the reply of a lookup of its payment's mapping at its return
    updated,   \* history: every <<viewToken, setupPayload>> an update has written
    repo       \* the files of the GitHub repository the uploader commits to

vars == <<redis, now, uuids, accepted, inflight, out, calls, updated, repo>>

\* a handler between two store commands: its request's kind, where it stands, the
\* credentials of its request (secret, sig), its
\* locals (meta: the purchase record it holds, `stored` in issuePurchaseToken and
\* `meta` in /generate)
NoHandler == [kind |-> "none", pc |-> "none", secret |-> Null, sig |-> Null, paymentId |-> Null,
              event |-> Null, token |-> Null, meta |-> [createdAt |-> 0], setup |-> Null,
              viewToken |-> Null]

\* what a step sends: the request (the handler that answers), the HTTP response, and
\* the value issuePurchaseToken returned to the handler if it was called
NoCall == [token |-> Null, createdMapping |-> FALSE]
NoOut == [req |-> [kind |-> "none"], res |-> [status |-> 0], call |-> NoCall]
Sent(request, response) == [req |-> request, res |-> response, call |-> NoCall]
SentAfterIssue(request, response, ret) == [req |-> request, res |-> response, call |-> ret]

EmptyStore == [k \in {} |-> [val |-> Null, exp |-> 0]]
\* a repository without uploads
EmptyRepo == [path \in {} |-> Null]

Init ==
    /\ redis = EmptyStore
    /\ now = 0
    /\ uuids = [purchase |-> 0, view |-> 0]
    /\ accepted = 0
    /\ inflight = EmptyBag
    /\ out = NoOut
    /\ calls = {}
    /\ updated = {}
    /\ repo = EmptyRepo

Handlers == BagToSet(inflight)

\* the last response has left: only then is the next step taken
Idle == out = NoOut

\* the response of the last step leaves
Deliver ==
    /\ out # NoOut
    /\ out' = NoOut
    /\ UNCHANGED <<redis, now, uuids, accepted, inflight, calls, updated, repo>>

\* a request that goes on to write is accepted
Accept(limit) ==
    /\ accepted < limit
    /\ accepted' = accepted + 1

\* a store write of a request in flight is rejected
Reject(limit) ==
    /\ accepted < limit
    /\ accepted' = accepted + 1

\* a request is accepted and its first store write is rejected
AcceptAndReject(limit) ==
    /\ accepted + 1 < limit
    /\ accepted' = accepted + 2

\* a new handler stands before its next store command
Await(h) == inflight' = inflight (+) SetToBag({h})
\* handler h goes on as g
Continue(h, g) == inflight' = (inflight (-) SetToBag({h})) (+) SetToBag({g})
\* handler h ends
End(h) == inflight' = inflight (-) SetToBag({h})

NextPurchaseToken == uuidv4(PurchaseUuids, uuids.purchase)
NextViewToken == uuidv4(ViewUuids, uuids.view)

(***************************************************************************)
(* issuePurchaseToken(meta), src/token-service/server.js                   *)
(***************************************************************************)
\* a call that writes the mapping whatever its metadata
HasPaymentIdAlways(meta) == TRUE

\* if (meta && meta.paymentId)
HasPaymentId(meta) == "paymentId" \in DOMAIN meta /\ meta.paymentId # Null

\* the metadata a handler passes to issuePurchaseToken
MetaOf(h) ==
    IF h.kind = "admin" THEN [paymentId |-> h.paymentId]
    ELSE [paymentId |-> h.paymentId, event |-> h.event]

\* a stored record that drops the metadata
StoredRecordBare(meta, t) == [createdAt |-> t]

\* the record stored under purchase:<token>
StoredRecord(meta, t) == ObjectAssign([createdAt |-> t], meta)

\* a write that gives the record twice the purchase TTL
PurchaseWriteLong(store, token, meta, t) ==
    SetEx(store, purchaseKey(token), JSON_stringify(StoredRecord(meta, t)),
          2 * PURCHASE_TTL, t)

\* the first store write: purchase:<token> with the purchase TTL
PurchaseWrite(store, token, meta, t) ==
    SetEx(store, purchaseKey(token), JSON_stringify(StoredRecord(meta, t)), PURCHASE_TTL, t)

\* a mapping write with a shorter TTL than the purchase record's
MappingWriteBrief(store, paymentId, token, t) ==
    SetExNx(store, paymentKey(paymentId), token, PURCHASE_TTL - 1, t)

\* a mapping write without NX: the last writer wins
MappingOverwrite(store, paymentId, token, t) ==
    SetEx(store, paymentKey(paymentId), token, PURCHASE_TTL, t)

\* the second store write: payment:<paymentId> -> token, only if absent
MappingWrite(store, paymentId, token, t) ==
    SetExNx(store, paymentKey(paymentId), token, PURCHASE_TTL, t)

\* a createdMapping that does not look at the reply
CreatedMappingAlways(setResult) == TRUE

\* createdMapping = setResult === 'OK'
CreatedMapping(setResult) == setResult = "OK"

\* what the caller answers once the call has returned { token, createdMapping }
IssueResponse(h, token) ==
    IF h.kind = "admin"
    THEN [status |-> 200, success |-> TRUE, token |-> token,
          claimUrl |-> SetupClaimUrl(token), expiresInSec |-> PURCHASE_TTL]
    ELSE [status |-> 200, ok |-> TRUE, claimUrl |-> SetupClaimUrl(token),
          created |-> TRUE]

\* the call's entry and its first store command: h is the caller, paymentId (and event) set
IssueBegin(h) ==
    /\ uuids' = [uuids EXCEPT !.purchase = @ + 1]
    /\ redis' = PurchaseWrite(redis, NextPurchaseToken, MetaOf(h), now)

\* the second store command, the call's return and the caller's answer
IssueMapping(h) ==
    /\ Idle
    /\ h \in Handlers
    /\ h.pc = "issue_map"
    /\ LET createdMapping ==
               IF HasPaymentId(MetaOf(h))
               THEN CreatedMapping(SetNxReply(redis, paymentKey(MetaOf(h).paymentId)))
               ELSE FALSE
       IN  /\ redis' = IF HasPaymentId(MetaOf(h))
                       THEN MappingWrite(redis, MetaOf(h).paymentId, h.token, now)
                       ELSE redis
           /\ out' = SentAfterIssue(h, IssueResponse(h, h.token),
                                    [token |-> h.token, createdMapping |-> createdMapping])
           /\ calls' = calls \cup
                  {[kind |-> h.kind, paymentId |-> h.paymentId, token |-> h.token,
                    createdMapping |-> createdMapping,
                    mapping |-> Get(redis', paymentKey(h.paymentId))]}
    /\ End(h)
    /\ UNCHANGED <<now, uuids, accepted, updated, repo>>

\* a call of issuePurchaseToken with any metadata (paymentId Null: none given), up to
\* its first store command
IssueCall(paymentId) ==
    /\ Idle
    /\ Accept(MaxIssues)
    /\ LET h == [NoHandler EXCEPT !.kind = "issuePurchaseToken", !.paymentId = paymentId]
       IN  /\ IssueBegin(h)
           /\ Await([h EXCEPT !.pc = "call_map", !.token = NextPurchaseToken,
                              !.meta = StoredRecord(MetaOf(h), now)])
    /\ out' = NoOut
    /\ UNCHANGED <<now, calls, updated, repo>>

\* the rest of such a call: the conditional write if the metadata has a payment
\* identifier, and the return of { token, createdMapping }
IssueCallReturn(h) ==
    /\ Idle
    /\ h \in Handlers
    /\ h.pc = "call_map"
    /\ LET createdMapping ==
               IF HasPaymentId(MetaOf(h))
               THEN CreatedMapping(SetNxReply(redis, paymentKey(MetaOf(h).paymentId)))
               ELSE FALSE
           ret == [token |-> h.token, createdMapping |-> createdMapping]
       IN  /\ redis' = IF HasPaymentId(MetaOf(h))
                       THEN MappingWrite(redis, MetaOf(h).paymentId, h.token, now)
                       ELSE redis
           /\ out' = SentAfterIssue(h, [status |-> 0, returned |-> ret], ret)
           /\ calls' = calls \cup
                  {[kind |-> h.kind, paymentId |-> h.paymentId, token |-> h.token,
                    createdMapping |-> createdMapping,
                    mapping |-> Get(redis', paymentKey(h.paymentId))]}
    /\ End(h)
    /\ UNCHANGED <<now, uuids, accepted, updated, repo>>

(***************************************************************************)
(* POST /admin/issue-token                                                 *)
(***************************************************************************)
\* a handler that does not look at the secret
AdminIssueTokenOpen(secret, bodyPaymentId) ==
    /\ Idle
    /\ LET paymentId == IF bodyPaymentId # Null THEN bodyPaymentId ELSE ManualId(now)
           h == [NoHandler EXCEPT !.kind = "admin", !.secret = secret,
                                  !.paymentId = paymentId]
       IN  /\ Accept(MaxIssues)
           /\ IssueBegin(h)
           /\ Await([h EXCEPT !.pc = "issue_map", !.token = NextPurchaseToken,
                              !.meta = StoredRecord(MetaOf(h), now)])
           /\ out' = NoOut
    /\ UNCHANGED <<now, calls, updated, repo>>

AdminIssueToken(secret, bodyPaymentId) ==
    /\ Idle
    /\ IF secret = Null \/ secret # ADMIN_SECRET
       THEN /\ out' = Sent([kind |-> "admin", secret |-> secret],
                           [status |-> 401, error |-> "unauthorized"])
            /\ UNCHANGED <<redis, uuids, accepted, inflight>>
       ELSE LET paymentId == IF bodyPaymentId # Null THEN bodyPaymentId ELSE ManualId(now)
                h == [NoHandler EXCEPT !.kind = "admin", !.secret = secret,
                                       !.paymentId = paymentId]
            IN  /\ Accept(MaxIssues)
                /\ IssueBegin(h)
                /\ Await([h EXCEPT !.pc = "issue_map", !.token = NextPurchaseToken,
                                   !.meta = StoredRecord(MetaOf(h), now)])
                /\ out' = NoOut
    /\ UNCHANGED <<now, calls, updated, repo>>

(***************************************************************************)
(* verifyPurchaseToken(token) and GET /verify-purchase                     *)
(***************************************************************************)
JsNull == [tag |-> "null"]
JsValue(v) == [tag |-> "value", value |-> v]
JsThrow(e) == [tag |-> "throw", error |-> e]

\* a parse without the try/catch
VerifyParseUnguarded(raw) ==
    IF raw.nil THEN JsNull
    ELSE IF JSON_parse(raw.val) = ParseError THEN JsThrow(ParseError)
    ELSE JsValue(JSON_parse(raw.val))

\* lines 95-96: what verifyPurchaseToken makes of the reply of its GET
VerifyParse(raw) ==
    IF raw.nil THEN JsNull
    ELSE IF JSON_parse(raw.val) = ParseError THEN JsNull
    ELSE JsValue(JSON_parse(raw.val))

\* a verifyPurchaseToken that looks up whatever it is given
VerifyLookupsAlways(token) == <<purchaseKey(token)>>

\* the keys verifyPurchaseToken looks up: none without a token (line 93), else one GET
VerifyLookups(token) == IF token = Null THEN <<>> ELSE <<purchaseKey(token)>>

\* verifyPurchaseToken: no lookup without a token, else one GET and the parse
verifyPurchaseToken(store, token) ==
    IF VerifyLookups(token) = <<>> THEN JsNull
    ELSE VerifyParse(Get(store, VerifyLookups(token)[1]))

\* a verifyPurchaseToken that slides the expiry of the record it reads
VerifyStoreSliding(store, token, t) ==
    IF token # Null /\ purchaseKey(token) \in DOMAIN store
    THEN [store EXCEPT ![purchaseKey(token)].exp = t + PURCHASE_TTL]
    ELSE store

\* the store after verifyPurchaseToken: it issues no write
VerifyStore(store, token, t) == store

\* a call of verifyPurchaseToken with any argument, and what it returns
VerifyCall(token) ==
    /\ Idle
    /\ out' = Sent([kind |-> "verifyPurchaseToken", token |-> token,
                    lookups |-> VerifyLookups(token)],
                   [status |-> 0, returned |-> verifyPurchaseToken(redis, token)])
    /\ redis' = VerifyStore(redis, token, now)
    /\ UNCHANGED <<now, uuids, accepted, inflight, calls, updated, repo>>

\* the handler has no try: an error thrown by the call escapes it and it sends no answer
VerifyPurchaseResponse(token, meta) ==
    IF token = Null THEN [status |-> 400, error |-> "missing_token"]
    ELSE IF meta.tag = "throw" THEN [status |-> 0, error |-> "unhandled_rejection"]
    ELSE IF meta.tag = "null" THEN [status |-> 404, error |-> "invalid_or_expired"]
    ELSE [status |-> 200, valid |-> TRUE, meta |-> meta.value]

VerifyPurchase(token) ==
    /\ Idle
    /\ out' = Sent([kind |-> "verify", token |-> token,
                    lookups |-> IF token = Null THEN <<>> ELSE VerifyLookups(token)],
                   VerifyPurchaseResponse(token, verifyPurchaseToken(redis, token)))
    /\ redis' = IF token = Null THEN redis ELSE VerifyStore(redis, token, now)
    /\ UNCHANGED <<now, uuids, accepted, inflight, calls, updated, repo>>

(***************************************************************************)
(* POST /razorpay-webhook                                                  *)
(***************************************************************************)
\* a handler that lets every request through
SignatureSkipped(sig, body) == TRUE

\* the signature check: TRUE when the request is let through
SignatureOk(sig, body) ==
    IF RAZORPAY_WEBHOOK_SECRET # ""
    THEN sig = Hmac(RAZORPAY_WEBHOOK_SECRET, body)
    ELSE TRUE

\* the answer when a mapping was found
WebhookReuseResponse(existing) ==
    [status |-> 200, ok |-> TRUE, claimUrl |-> SetupClaimUrl(existing), reused |-> TRUE]

\* a handler that issues a token whether or not it finds a mapping
RazorpayWebhookIssuing(sig, body) ==
    /\ Idle
    /\ IF ~SignatureOk(sig, body)
       THEN /\ out' = Sent([kind |-> "webhook", sig |-> sig, body |-> body],
                           [status |-> 400, error |-> "invalid signature"])
            /\ UNCHANGED <<accepted, inflight>>
       ELSE LET paymentId == IF body.id # Null THEN body.id ELSE RazorpayId(now)
                h == [NoHandler EXCEPT !.kind = "webhook", !.sig = sig,
                                       !.paymentId = paymentId, !.event = body.event]
            IN  /\ Accept(MaxIssues)
                /\ Await([h EXCEPT !.pc = "issue_begin"])
                /\ out' = NoOut
    /\ UNCHANGED <<redis, now, uuids, calls, updated, repo>>

\* body: the payment id of the payload (Null if none) and the event.
\* The handler up to the reply of its mapping lookup.
RazorpayWebhook(sig, body) ==
    /\ Idle
    /\ IF ~SignatureOk(sig, body)
       THEN /\ out' = Sent([kind |-> "webhook", sig |-> sig, body |-> body],
                           [status |-> 400, error |-> "invalid signature"])
            /\ UNCHANGED <<accepted, inflight>>
       ELSE LET paymentId == IF body.id # Null THEN body.id ELSE RazorpayId(now)
                existing == Get(redis, paymentKey(paymentId))
                h == [NoHandler EXCEPT !.kind = "webhook", !.sig = sig,
                                       !.paymentId = paymentId, !.event = body.event]
            IN  IF ~existing.nil
                THEN /\ out' = Sent(h, WebhookReuseResponse(existing.val))
                     /\ UNCHANGED <<accepted, inflight>>
                ELSE /\ Accept(MaxIssues)
                     /\ Await([h EXCEPT !.pc = "issue_begin"])
                     /\ out' = NoOut
    /\ UNCHANGED <<redis, now, uuids, calls, updated, repo>>

\* no mapping was found: the handler calls issuePurchaseToken
RazorpayWebhookIssue(h) ==
    /\ Idle
    /\ h \in Handlers
    /\ h.pc = "issue_begin"
    /\ IssueBegin(h)
    /\ Continue(h, [h EXCEPT !.pc = "issue_map", !.token = NextPurchaseToken,
                              !.meta = StoredRecord(MetaOf(h), now)])
    /\ out' = NoOut
    /\ UNCHANGED <<now, accepted, calls, updated, repo>>

(***************************************************************************)
(* GET /claim-return (strict)                                              *)
(***************************************************************************)
ClaimReturnResponse(paymentId, token) ==
    IF paymentId = Null THEN [status |-> 400, error |-> "missing payment_id"]
    ELSE IF token.nil
    THEN [status |-> 410, error |-> "Link expired or not found for this payment."]
    ELSE [status |-> 302, location |-> SetupClaimUrl(token.val)]

\* a handler that mints a mapping when it finds none
ClaimReturnStoreMinting(store, paymentId, t) ==
    IF paymentId # Null /\ paymentKey(paymentId) \notin DOMAIN store
    THEN SetEx(store, paymentKey(paymentId), Junk, PURCHASE_TTL, t)
    ELSE store

\* a handler that refreshes the TTL of the mapping and of the purchase record
ClaimReturnStoreRefreshing(store, paymentId, t) ==
    IF paymentId # Null /\ paymentKey(paymentId) \in DOMAIN store
    THEN [k \in DOMAIN store |->
            IF k \in {paymentKey(paymentId), purchaseKey(store[paymentKey(paymentId)].val)}
            THEN [store[k] EXCEPT !.exp = t + PURCHASE_TTL]
            ELSE store[k]]
    ELSE store

\* the store after the handler: it reads the mapping and writes nothing
ClaimReturnStore(store, paymentId, t) == store

\* a handler that looks up the mapping before it looks at the identifier
ClaimReturnLookupsAlways(paymentId) == <<paymentKey(paymentId)>>

\* the keys the handler looks up: none without a payment identifier (lines 215-218)
ClaimReturnLookups(paymentId) ==
    IF paymentId = Null THEN <<>> ELSE <<paymentKey(paymentId)>>

ClaimReturn(paymentId) ==
    /\ Idle
    /\ out' = Sent([kind |-> "claim", paymentId |-> paymentId,
                    lookups |-> ClaimReturnLookups(paymentId)],
                   ClaimReturnResponse(paymentId,
                       IF ClaimReturnLookups(paymentId) = <<>> THEN NilReply
                       ELSE Get(redis, ClaimReturnLookups(paymentId)[1])))
    /\ redis' = ClaimReturnStore(redis, paymentId, now)
    /\ UNCHANGED <<now, uuids, accepted, inflight, calls, updated, repo>>

(***************************************************************************)
(* GET /claim-return of the permissive token service, src/unnamed/part_002 *)
(* (and, with fewer names for the identifier, src/unnamed/part_001).       *)
(***************************************************************************)
\* an EXPIRE that has no effect
ExpireKeyIgnored(store, k, ttl, t) == store

\* redis.expire(k, ttl) at time t: a key that is present gets a new deadline
ExpireKey(store, k, ttl, t) ==
    IF k \in DOMAIN store THEN [store EXCEPT ![k].exp = t + ttl] ELSE store

\* the mapping write of the permissive issuePurchaseToken: a plain SET
PermissiveMappingWrite(store, paymentId, token, t) ==
    SetEx(store, paymentKey(paymentId), token, PURCHASE_TTL, t)

PermissiveRedirect(token) == [status |-> 302, location |-> SetupClaimUrl(token)]

\* the handler up to the reply of its mapping lookup
PermissiveClaimReturn(paymentId) ==
    /\ Idle
    /\ IF paymentId = Null
       THEN /\ out' = Sent([kind |-> "claim", paymentId |-> paymentId],
                           [status |-> 400, error |-> "missing payment_id"])
            /\ UNCHANGED <<accepted, inflight>>
       ELSE LET token == Get(redis, paymentKey(paymentId))
                h == [NoHandler EXCEPT !.kind = "claim", !.paymentId = paymentId]
            IN  /\ Accept(MaxIssues)
                /\ Await(IF token.nil
                         THEN [h EXCEPT !.pc = "mint_begin"]
                         ELSE [h EXCEPT !.pc = "extend_purchase", !.token = token.val])
                /\ out' = NoOut
    /\ UNCHANGED <<redis, now, uuids, calls, updated, repo>>

\* no mapping: issuePurchaseToken({ paymentId }), its purchase write
PermissiveMint(h) ==
    /\ Idle
    /\ h \in Handlers
    /\ h.pc = "mint_begin"
    /\ uuids' = [uuids EXCEPT !.purchase = @ + 1]
    /\ redis' = PurchaseWrite(redis, NextPurchaseToken, [paymentId |-> h.paymentId], now)
    /\ Continue(h, [h EXCEPT !.pc = "mint_map", !.token = NextPurchaseToken,
                             !.meta = StoredRecord([paymentId |-> h.paymentId], now)])
    /\ out' = NoOut
    /\ UNCHANGED <<now, accepted, calls, updated, repo>>

\* its mapping write, and the redirect to the new token
PermissiveMintMapping(h) ==
    /\ Idle
    /\ h \in Handlers
    /\ h.pc = "mint_map"
    /\ redis' = PermissiveMappingWrite(redis, h.paymentId, h.token, now)
    /\ out' = Sent(h, PermissiveRedirect(h.token))
    /\ End(h)
    /\ UNCHANGED <<now, uuids, accepted, calls, updated, repo>>

\* a mapping was found: redis.expire on the purchase record of the mapped token
PermissiveExtendPurchase(h) ==
    /\ Idle
    /\ h \in Handlers
    /\ h.pc = "extend_purchase"
    /\ redis' = ExpireKey(redis, purchaseKey(h.token), PURCHASE_TTL, now)
    /\ Continue(h, [h EXCEPT !.pc = "extend_mapping"])
    /\ out' = NoOut
    /\ UNCHANGED <<now, uuids, accepted, calls, updated, repo>>

\* redis.expire on the mapping, and the redirect to the mapped token
PermissiveExtendMapping(h) ==
    /\ Idle
    /\ h \in Handlers
    /\ h.pc = "extend_mapping"
    /\ redis' = ExpireKey(redis, paymentKey(h.paymentId), PURCHASE_TTL, now)
    /\ out' = Sent(h, PermissiveRedirect(h.token))
    /\ End(h)
    /\ UNCHANGED <<now, uuids, accepted, calls, updated, repo>>

(***************************************************************************)
(* Store failures in the strict token service: a store command is rejected *)
(* (connection lost, store down) and has no effect on the store.           *)
(***************************************************************************)
\* the request, marked with the store command that failed
Failing(request, command) ==
    [f \in DOMAIN request \cup {"failed"} |->
        IF f = "failed" THEN command ELSE request[f]]

\* a handler with a try/catch around its body answers 500 'server error'
CaughtResponse == [status |-> 500, error |-> "server error"]

\* a handler without try/catch: the rejection escapes the async handler.  What the
\* client then sees depends on the Express release the service is run with: no
\* answer at all (the rejection is unhandled), or the default error handler's 500.
UnhandledOutcomes ==
    {[status |-> 0, error |-> "unhandled_rejection"],
     [status |-> 500, error |-> "Internal Server Error"]}

\* an issuePurchaseToken without the try/catch around the mapping write
MappingWriteFailedThrows(token) == JsThrow([error |-> "store"])

\* issuePurchaseToken when the mapping write is rejected: the catch swallows the
\* error and the call returns { token, createdMapping: false }
MappingWriteFailed(token) == JsValue([token |-> token, createdMapping |-> FALSE])

\* the answers the caller of issuePurchaseToken can give to the call's result
IssueAnswers(h, result) ==
    IF result.tag = "throw"
    THEN IF h.kind = "webhook" THEN {CaughtResponse} ELSE UnhandledOutcomes
    ELSE {IssueResponse(h, result.value.token)}

\* /admin/issue-token: the purchase write (line 72) is rejected
AdminIssueTokenFails(bodyPaymentId) ==
    /\ Idle
    /\ AcceptAndReject(MaxIssues)
    /\ uuids' = [uuids EXCEPT !.purchase = @ + 1]
    /\ \E answer \in IssueAnswers([kind |-> "admin"], JsThrow([error |-> "store"])) :
          out' = Sent(Failing([kind |-> "admin", paymentId |-> bodyPaymentId], "purchase"),
                      answer)
    /\ UNCHANGED <<redis, now, inflight, calls, updated, repo>>

\* /razorpay-webhook: the mapping lookup (line 182) is rejected
RazorpayWebhookFails(sig, body) ==
    /\ Idle
    /\ SignatureOk(sig, body)
    /\ out' = Sent(Failing([kind |-> "webhook", sig |-> sig, body |-> body], "lookup"),
                   CaughtResponse)
    /\ UNCHANGED <<redis, now, uuids, accepted, inflight, calls, updated, repo>>

\* /razorpay-webhook: the purchase write of its issuePurchaseToken call is rejected
RazorpayWebhookIssueFails(h) ==
    /\ Idle
    /\ h \in Handlers
    /\ h.pc = "issue_begin"
    /\ uuids' = [uuids EXCEPT !.purchase = @ + 1]
    /\ \E answer \in IssueAnswers(h, JsThrow([error |-> "store"])) :
          out' = Sent(Failing(h, "purchase"), answer)
    /\ End(h)
    /\ Reject(MaxIssues)
    /\ UNCHANGED <<redis, now, calls, updated, repo>>

\* issuePurchaseToken: the mapping write (line 80) is rejected
IssueMappingFails(h) ==
    /\ Idle
    /\ h \in Handlers
    /\ h.pc = "issue_map"
    /\ HasPaymentId(MetaOf(h))
    /\ LET result == MappingWriteFailed(h.token)
       IN  /\ \E answer \in IssueAnswers(h, result) :
                 out' = SentAfterIssue(Failing(h, "mapping"), answer,
                                       IF result.tag = "value" THEN result.value ELSE NoCall)
           /\ calls' = IF result.tag = "value"
                       THEN calls \cup
                            {[kind |-> h.kind, paymentId |-> h.paymentId, token |-> h.token,
                              createdMapping |-> result.value.createdMapping,
                              mapping |-> Get(redis, paymentKey(h.paymentId))]}
                       ELSE calls
    /\ End(h)
    /\ Reject(MaxIssues)
    /\ UNCHANGED <<redis, now, uuids, updated, repo>>

\* /verify-purchase: the GET of verifyPurchaseToken (line 94) is rejected; neither
\* the function nor the handler catches it
VerifyPurchaseFails(token) ==
    /\ Idle
    /\ token # Null
    /\ \E answer \in UnhandledOutcomes :
          out' = Sent(Failing([kind |-> "verify", token |-> token], "lookup"), answer)
    /\ UNCHANGED <<redis, now, uuids, accepted, inflight, calls, updated, repo>>

\* /claim-return: the mapping lookup (line 221) is rejected
ClaimReturnFails(paymentId) ==
    /\ Idle
    /\ paymentId # Null
    /\ out' = Sent(Failing([kind |-> "claim", paymentId |-> paymentId], "lookup"),
                   CaughtResponse)
    /\ UNCHANGED <<redis, now, uuids, accepted, inflight, calls, updated, repo>>

(***************************************************************************)
(* The view token server, src/unnamed/part_000.                            *)
(***************************************************************************)
\* issuePurchaseToken of the view server: one write, no payment mapping
ViewServerIssue(store, token, meta, t) ==
    SetEx(store, purchaseKey(token), JSON_stringify(ObjectAssign([createdAt |-> t], meta)),
          PURCHASE_TTL, t)

\* POST /admin/issue-token of the view server
ViewServerAdminIssueToken(secret, bodyPaymentId) ==
    /\ Idle
    /\ IF secret = Null \/ secret # ADMIN_SECRET
       THEN /\ out' = Sent([kind |-> "admin", secret |-> secret],
                           [status |-> 401, error |-> "unauthorized"])
            /\ UNCHANGED <<redis, uuids, accepted>>
       ELSE LET paymentId == IF bodyPaymentId # Null THEN bodyPaymentId ELSE ManualId(now)
            IN  /\ Accept(MaxRequests)
                /\ uuids' = [uuids EXCEPT !.purchase = @ + 1]
                /\ redis' = ViewServerIssue(redis, NextPurchaseToken,
                                            [paymentId |-> paymentId], now)
                /\ out' = Sent([kind |-> "admin", secret |-> secret, paymentId |-> paymentId],
                               [status |-> 200, success |-> TRUE,
                                token |-> NextPurchaseToken,
                                claimUrl |-> SetupClaimUrl(NextPurchaseToken),
                                expiresInSec |-> PURCHASE_TTL])
    /\ UNCHANGED <<now, inflight, calls, updated, repo>>

\* a view record that ignores the payload submitted
CreatedViewEmpty(setupPayload, orderMeta, t) ==
    [setupPayload |-> "{}", orderMeta |-> orderMeta, createdAt |-> t]

\* the view record createViewToken stores, and the one updateViewToken stores
CreatedView(setupPayload, orderMeta, t) ==
    [setupPayload |-> setupPayload, orderMeta |-> orderMeta, createdAt |-> t]
UpdatedView(setupPayload, t) == [setupPayload |-> setupPayload, updatedAt |-> t]

\* a createViewToken that stores the view with the purchase TTL
CreateViewWriteShort(store, token, setupPayload, orderMeta, t) ==
    SetEx(store, viewKey(token), JSON_stringify(CreatedView(setupPayload, orderMeta, t)),
          PURCHASE_TTL, t)

\* a createViewToken whose view expires with the purchase record it was made under
CreateViewWriteBound(store, token, setupPayload, orderMeta, t) ==
    SetEx(store, viewKey(token), JSON_stringify(CreatedView(setupPayload, orderMeta, t)),
          orderMeta.createdAt + PURCHASE_TTL - t, t)

\* createViewToken's write
CreateViewWrite(store, token, setupPayload, orderMeta, t) ==
    SetEx(store, viewKey(token), JSON_stringify(CreatedView(setupPayload, orderMeta, t)),
          VIEW_TTL, t)

\* an updateViewToken that keeps a record that is present
UpdateViewWriteKeeping(store, token, setupPayload, t) ==
    SetExNx(store, viewKey(token), JSON_stringify(UpdatedView(setupPayload, t)), VIEW_TTL, t)

\* updateViewToken's write
UpdateViewWrite(store, token, setupPayload, t) ==
    SetEx(store, viewKey(token), JSON_stringify(UpdatedView(setupPayload, t)), VIEW_TTL, t)

\* req.body.setup || {}
SetupPayload(setup) == IF setup = Null THEN "{}" ELSE setup

GenerateResponse(viewToken) ==
    [status |-> 200, success |-> TRUE, viewToken |-> viewToken,
     viewUrl |-> ViewUrl(viewToken), purchaseTokenExpiresIn |-> PURCHASE_TTL]

\* a /generate that goes on with whatever purchase token it is given
GenerateUnverified(purchaseToken, setup, existingViewToken) ==
    /\ Idle
    /\ LET meta == verifyPurchaseToken(redis, purchaseToken)
           request == [NoHandler EXCEPT !.kind = "generate", !.token = purchaseToken]
       IN  IF purchaseToken = Null
           THEN /\ out' = Sent(request, [status |-> 401, error |-> "missing_purchase_token"])
                /\ UNCHANGED <<accepted, inflight>>
           ELSE /\ Accept(MaxRequests)
                /\ Await([request EXCEPT !.meta = IF meta.tag = "value" THEN meta.value
                                                  ELSE NoHandler.meta,
                                         !.setup = SetupPayload(setup),
                                         !.viewToken = existingViewToken,
                                         !.pc = IF existingViewToken # Null
                                                THEN "gen_exists" ELSE "gen_create"])
                /\ out' = NoOut
    /\ UNCHANGED <<redis, now, uuids, calls, updated, repo>>

\* POST /generate up to the reply of verifyPurchaseToken's GET
Generate(purchaseToken, setup, existingViewToken) ==
    /\ Idle
    /\ LET meta == verifyPurchaseToken(redis, purchaseToken)
           request == [NoHandler EXCEPT !.kind = "generate", !.token = purchaseToken]
       IN  IF purchaseToken = Null
           THEN /\ out' = Sent(request, [status |-> 401, error |-> "missing_purchase_token"])
                /\ UNCHANGED <<accepted, inflight>>
           ELSE IF meta.tag = "null"
           THEN /\ out' = Sent(request, [status |-> 403,
                                         error |-> "invalid_or_expired_purchase_token"])
                /\ UNCHANGED <<accepted, inflight>>
           ELSE /\ Accept(MaxRequests)
                /\ Await([request EXCEPT !.meta = meta.value,
                                         !.setup = SetupPayload(setup),
                                         !.viewToken = existingViewToken,
                                         !.pc = IF existingViewToken # Null
                                                THEN "gen_exists" ELSE "gen_create"])
                /\ out' = NoOut
    /\ UNCHANGED <<redis, now, uuids, calls, updated, repo>>

\* updateViewToken's EXISTS: on 0 it returns null and the handler goes on to create
GenerateExists(h) ==
    /\ Idle
    /\ h \in Handlers
    /\ h.pc = "gen_exists"
    /\ Continue(h, [h EXCEPT !.pc = IF Exists(redis, viewKey(h.viewToken)) # 0
                                     THEN "gen_update" ELSE "gen_create"])
    /\ out' = NoOut
    /\ UNCHANGED <<redis, now, uuids, accepted, calls, updated, repo>>

\* updateViewToken's SET, and the answer with the existing view token
GenerateUpdate(h) ==
    /\ Idle
    /\ h \in Handlers
    /\ h.pc = "gen_update"
    /\ redis' = UpdateViewWrite(redis, h.viewToken, h.setup, now)
    /\ out' = Sent(h, GenerateResponse(h.viewToken))
    /\ updated' = updated \cup {<<h.viewToken, h.setup>>}
    /\ End(h)
    /\ UNCHANGED <<now, uuids, accepted, calls, repo>>

\* a /generate that consumes the purchase token when it creates the view
GenerateCreateConsuming(h) ==
    /\ Idle
    /\ h \in Handlers
    /\ h.pc = "gen_create"
    /\ uuids' = [uuids EXCEPT !.view = @ + 1]
    /\ redis' = LET written == CreateViewWrite(redis, NextViewToken, h.setup, h.meta, now)
                IN  [k \in DOMAIN written \ {purchaseKey(h.token)} |-> written[k]]
    /\ out' = Sent(h, GenerateResponse(NextViewToken))
    /\ End(h)
    /\ UNCHANGED <<now, accepted, calls, updated, repo>>

\* createViewToken, and the answer with the new view token
GenerateCreate(h) ==
    /\ Idle
    /\ h \in Handlers
    /\ h.pc = "gen_create"
    /\ uuids' = [uuids EXCEPT !.view = @ + 1]
    /\ redis' = CreateViewWrite(redis, NextViewToken, h.setup, h.meta, now)
    /\ out' = Sent(h, GenerateResponse(NextViewToken))
    /\ End(h)
    /\ UNCHANGED <<now, accepted, calls, updated, repo>>

\* a handler without the check of the reply: JSON.parse(null) is null
ValidateViewResponseUnchecked(token, raw) ==
    IF token = Null THEN [status |-> 400, error |-> "missing_view_token"]
    ELSE IF raw.nil THEN [status |-> 200, success |-> TRUE, payload |-> Null]
    ELSE IF JSON_parse(raw.val) = ParseError THEN [status |-> 500, error |-> "server_error"]
    ELSE [status |-> 200, success |-> TRUE, payload |-> JSON_parse(raw.val)]

\* GET /validate-view: JSON.parse is inside the try, a throw answers 500
ValidateViewResponse(token, raw) ==
    IF token = Null THEN [status |-> 400, error |-> "missing_view_token"]
    ELSE IF raw.nil THEN [status |-> 410, error |-> "view_token_not_found"]
    ELSE IF JSON_parse(raw.val) = ParseError THEN [status |-> 500, error |-> "server_error"]
    ELSE [status |-> 200, success |-> TRUE, payload |-> JSON_parse(raw.val)]

ValidateView(token) ==
    /\ Idle
    /\ out' = Sent([kind |-> "validate", token |-> token],
                   ValidateViewResponse(token,
                       IF token = Null THEN NilReply ELSE Get(redis, viewKey(token))))
    /\ UNCHANGED <<redis, now, uuids, accepted, inflight, calls, updated, repo>>

(***************************************************************************)
(* Time: the clock advances and the keys whose deadline it reaches expire. *)
(***************************************************************************)
Tick ==
    /\ Idle
    /\ now < MaxTime
    /\ now' = now + 1
    /\ redis' = Expire(redis, now + 1)
    /\ UNCHANGED <<uuids, accepted, inflight, out, calls, updated, repo>>

(***************************************************************************)
(* Requests.                                                               *)
(***************************************************************************)
Secrets == {ADMIN_SECRET, "guess", Null}
Bodies == [id : Pids, event : Events]
Sigs(body) == {Hmac(RAZORPAY_WEBHOOK_SECRET, body), Hmac("forged", body)}
PurchaseTokenInputs == Minted(PurchaseUuids, uuids.purchase) \cup {Junk, Null}
ViewTokenInputs == Minted(ViewUuids, uuids.view) \cup {Junk, Null}

(***************************************************************************)
(* The strict token service.                                               *)
(***************************************************************************)
Next ==
    \/ Tick
    \/ Deliver
    \/ \E secret \in Secrets, paymentId \in Pids : AdminIssueToken(secret, paymentId)
    \/ \E token \in PurchaseTokenInputs : VerifyPurchase(token)
    \/ \E body \in Bodies : \E sig \in Sigs(body) : RazorpayWebhook(sig, body)
    \/ \E paymentId \in Pids \cup {Null} : ClaimReturn(paymentId)
    \/ \E h \in Handlers : IssueMapping(h)
    \/ \E h \in Handlers : RazorpayWebhookIssue(h)

Spec == Init /\ [][Next]_vars

\* the strict service over a store that may hold a record that is not JSON
InitCorrupt ==
    /\ redis \in {EmptyStore,
                  Put(EmptyStore, purchaseKey(Junk), Corrupt, MaxTime + PURCHASE_TTL + 1)}
    /\ now = 0
    /\ uuids = [purchase |-> 0, view |-> 0]
    /\ accepted = 0
    /\ inflight = EmptyBag
    /\ out = NoOut
    /\ calls = {}
    /\ updated = {}
    /\ repo = EmptyRepo

SpecCorrupt == InitCorrupt /\ [][Next]_vars

\* calls of verifyPurchaseToken on any argument and /verify-purchase requests,
\* over the records that /admin/issue-token stores and that expire
NextVerify ==
    \/ Tick
    \/ Deliver
    \/ \E paymentId \in Pids : AdminIssueToken(ADMIN_SECRET, paymentId)
    \/ \E h \in Handlers : IssueMapping(h)
    \/ \E token \in PurchaseTokenInputs : VerifyPurchase(token)
    \/ \E token \in PurchaseTokenInputs : VerifyCall(token)

SpecVerify == InitCorrupt /\ [][NextVerify]_vars

\* the strict service over a store whose commands may be rejected: the requests that
\* reach a store command, each with the command served or rejected
NextFail ==
    \/ Tick
    \/ Deliver
    \/ \E paymentId \in Pids : AdminIssueToken(ADMIN_SECRET, paymentId)
    \/ \E body \in Bodies : RazorpayWebhook(Hmac(RAZORPAY_WEBHOOK_SECRET, body), body)
    \/ \E h \in Handlers : IssueMapping(h)
    \/ \E h \in Handlers : RazorpayWebhookIssue(h)
    \/ \E paymentId \in Pids : AdminIssueTokenFails(paymentId)
    \/ \E body \in Bodies : \E sig \in Sigs(body) : RazorpayWebhookFails(sig, body)
    \/ \E token \in PurchaseTokenInputs : VerifyPurchaseFails(token)
    \/ \E paymentId \in Pids : ClaimReturnFails(paymentId)
    \/ \E h \in Handlers : RazorpayWebhookIssueFails(h)
    \/ \E h \in Handlers : IssueMappingFails(h)

SpecFail == Init /\ [][NextFail]_vars

(***************************************************************************)
(* The view token server.                                                  *)
(***************************************************************************)
NextView ==
    \/ Tick
    \/ Deliver
    \/ \E secret \in Secrets, paymentId \in Pids : ViewServerAdminIssueToken(secret, paymentId)
    \/ \E purchaseToken \in PurchaseTokenInputs, setup \in Setups,
          existingViewToken \in ViewTokenInputs :
              Generate(purchaseToken, setup, existingViewToken)
    \/ \E token \in ViewTokenInputs : ValidateView(token)
    \/ \E h \in Handlers : GenerateExists(h)
    \/ \E h \in Handlers : GenerateUpdate(h)
    \/ \E h \in Handlers : GenerateCreate(h)

SpecView == Init /\ [][NextView]_vars

\* the view server a while after a purchase: the purchase token, issued at
\* ExpiringCreatedAt, has expired; the view created under it at that time is in the
\* store and expires at the next tick
ExpiringCreatedAt == 1 - VIEW_TTL
ExpiringView ==
    CreatedView("a", [createdAt |-> ExpiringCreatedAt, paymentId |-> "pay_1"],
                ExpiringCreatedAt)

InitExpiring ==
    /\ redis = SetEx(EmptyStore, viewKey(uuidv4(ViewUuids, 0)), JSON_stringify(ExpiringView),
                     VIEW_TTL, ExpiringCreatedAt)
    /\ now = 0
    /\ uuids = [purchase |-> 0, view |-> 1]
    /\ accepted = 0
    /\ inflight = EmptyBag
    /\ out = NoOut
    /\ calls = {}
    /\ updated = {}
    /\ repo = EmptyRepo

\* the requests of the view server; those that write share the budget MaxIssues
NextExpiry ==
    \/ Tick
    \/ Deliver
    \/ \E paymentId \in Pids :
          accepted < MaxIssues /\ ViewServerAdminIssueToken(ADMIN_SECRET, paymentId)
    \/ \E purchaseToken \in PurchaseTokenInputs, setup \in Setups,
          existingViewToken \in ViewTokenInputs :
              accepted < MaxIssues /\ Generate(purchaseToken, setup, existingViewToken)
    \/ \E token \in ViewTokenInputs : ValidateView(token)
    \/ \E h \in Handlers : GenerateExists(h)
    \/ \E h \in Handlers : GenerateUpdate(h)
    \/ \E h \in Handlers : GenerateCreate(h)

SpecExpiry == InitExpiring /\ [][NextExpiry]_vars

\* the view server over a store that may hold a purchase record that is not JSON
SpecGate == InitCorrupt /\ [][NextExpiry]_vars

(***************************************************************************)
(* The purchase flow over both servers, which share the store: a token of  *)
(* the strict service's /admin/issue-token, /verify-purchase, then the     *)
(* view server's /generate (without view token) and /validate-view; the    *)
(* requests of the flow share the budget MaxIssues.                        *)
(***************************************************************************)
NextFlow ==
    \/ Tick
    \/ Deliver
    \/ \E paymentId \in Pids : AdminIssueToken(ADMIN_SECRET, paymentId)
    \/ \E h \in Handlers : IssueMapping(h)
    \/ \E token \in PurchaseTokenInputs : VerifyPurchase(token)
    \/ \E purchaseToken \in PurchaseTokenInputs, setup \in Setups :
          accepted < MaxIssues /\ Generate(purchaseToken, setup, Null)
    \/ \E h \in Handlers : GenerateCreate(h)
    \/ \E token \in ViewTokenInputs : ValidateView(token)

SpecFlow == Init /\ [][NextFlow]_vars

\* the same requests over a store that holds a view about to expire
SpecFlowExpiry == InitExpiring /\ [][NextFlow]_vars

\* issuePurchaseToken called directly with any metadata, and by /admin/issue-token
NextIssue ==
    \/ Tick
    \/ Deliver
    \/ \E paymentId \in Pids \cup {Null} : IssueCall(paymentId)
    \/ \E h \in Handlers : IssueCallReturn(h)
    \/ \E paymentId \in Pids : AdminIssueToken(ADMIN_SECRET, paymentId)
    \/ \E h \in Handlers : IssueMapping(h)

SpecIssue == Init /\ [][NextIssue]_vars

\* /claim-return of the permissive token service
NextPermissive ==
    \/ Tick
    \/ Deliver
    \/ \E paymentId \in Pids \cup {Null} : PermissiveClaimReturn(paymentId)
    \/ \E h \in Handlers : PermissiveMint(h)
    \/ \E h \in Handlers : PermissiveMintMapping(h)
    \/ \E h \in Handlers : PermissiveExtendPurchase(h)
    \/ \E h \in Handlers : PermissiveExtendMapping(h)

SpecPermissive == Init /\ [][NextPermissive]_vars

(***************************************************************************)
(* Properties of the strict token service.                                 *)
(***************************************************************************)
PaymentKeys(store) == {k \in DOMAIN store : k[1] = "payment"}
AllPurchaseTokens == {PurchaseUuids[i] : i \in 1..Len(PurchaseUuids)} \cup {Junk, Null}

\* the step is the return of an issuePurchaseToken call
IssueReturned == out.call.token # Null

C2_ConcurrentIssue ==
    /\ \A c1, c2 \in calls :
          (c1 # c2 /\ c1.paymentId = c2.paymentId) => c1.token # c2.token
    /\ \A c1, c2 \in calls :
          (/\ c1.token # c2.token
           /\ c1.paymentId = c2.paymentId
           /\ c1.mapping = c2.mapping
           /\ c1.mapping \in {Bulk(c1.token), Bulk(c2.token)})
          => /\ c1.createdMapping # c2.createdMapping
             /\ c1.createdMapping <=> c1.mapping = Bulk(c1.token)
             /\ c2.createdMapping <=> c2.mapping = Bulk(c2.token)
    /\ \A c \in calls :
          ~c.createdMapping
          => /\ \A d \in calls : d.mapping # Bulk(c.token)
             /\ Get(redis, paymentKey(c.paymentId)) # Bulk(c.token)

\* two overlapping calls: the one that drew its token first returned after the
\* other had created the mapping, and the store resolves to the other's token
C2_Witness ==
    \E c1, c2 \in calls :
        /\ c1.paymentId = c2.paymentId
        /\ c1.token = uuidv4(PurchaseUuids, 0)
        /\ c2.token = uuidv4(PurchaseUuids, 1)
        /\ c2.createdMapping
        /\ ~c1.createdMapping
        /\ c1.mapping = Bulk(c2.token)
        /\ Get(redis, paymentKey(c1.paymentId)) = Bulk(c2.token)

\* C3 as stated: with only webhook deliveries issuing tokens, every successful
\* webhook response carries a claimUrl with the token stored in payment:<id>.
C3_WebhookResponsesCarryMappedToken ==
    (/\ out.req.kind = "webhook"
     /\ out.res.status = 200
     /\ \A c \in calls : c.kind = "webhook")
    => LET existing == Get(redis, paymentKey(out.req.paymentId))
       IN  /\ ~existing.nil
           /\ out.res.claimUrl = SetupClaimUrl(existing.val)

\* C4: a /claim-return for a payment identifier without a mapping answers 410 and
\* leaves every key of the store, its value and its deadline as they were.
C4_ClaimReturnWithoutMapping ==
    [][(/\ out'.req.kind = "claim"
        /\ out'.req.paymentId # Null
        /\ Get(redis, paymentKey(out'.req.paymentId)).nil)
       => /\ out'.res.status = 410
          /\ redis' = redis]_vars

\* a /claim-return answered 410 for a payment whose mapping had expired
C4_Witness ==
    /\ out.req.kind = "claim"
    /\ out.res.status = 410
    /\ paymentKey(out.req.paymentId) \notin DOMAIN redis
    /\ \E c \in calls : c.paymentId = out.req.paymentId /\ c.createdMapping

\* C5: a /claim-return for a payment identifier with a mapping redirects to the
\* setup URL with exactly the mapped token and leaves the store as it was: the
\* values and the deadlines of the mapping and of the purchase record are unchanged.
C5_ClaimReturnWithMapping ==
    [][(/\ out'.req.kind = "claim"
        /\ out'.req.paymentId # Null
        /\ ~Get(redis, paymentKey(out'.req.paymentId)).nil)
       => /\ out'.res = [status |-> 302,
                         location |-> SetupClaimUrl(redis[paymentKey(out'.req.paymentId)].val)]
          /\ redis' = redis]_vars

\* a /claim-return redirected to the mapped token while its purchase record is
\* present, one tick after both were written
C5_Witness ==
    /\ out.req.kind = "claim"
    /\ out.res.status = 302
    /\ paymentKey(out.req.paymentId) \in DOMAIN redis
    /\ out.res.location = SetupClaimUrl(redis[paymentKey(out.req.paymentId)].val)
    /\ purchaseKey(redis[paymentKey(out.req.paymentId)].val) \in DOMAIN redis
    /\ redis[paymentKey(out.req.paymentId)].exp < now + PURCHASE_TTL

\* C6: when issuePurchaseToken returns a token (less than PURCHASE_TTL after it
\* stored the record), verifyPurchaseToken accepts the token and returns a record
\* with every field of the metadata the call was given.
C6_IssuedTokenVerifies ==
    (IssueReturned /\ now < out.req.meta.createdAt + PURCHASE_TTL)
    => LET v == verifyPurchaseToken(redis, out.call.token)
       IN  /\ v.tag = "value"
           /\ \A f \in DOMAIN MetaOf(out.req) :
                 f \in DOMAIN v.value /\ v.value[f] = MetaOf(out.req)[f]

\* a webhook's call returned a token one tick after it stored the record, and the
\* token verifies
C6_Witness ==
    /\ IssueReturned
    /\ out.req.kind = "webhook"
    /\ now = out.req.meta.createdAt + 1
    /\ verifyPurchaseToken(redis, out.call.token).tag = "value"
    /\ verifyPurchaseToken(redis, out.call.token).value.event = out.req.event

\* C7: verifyPurchaseToken never throws, and it returns null for a token that was
\* never issued, for a token whose record has expired and for a token whose record
\* is not JSON; /verify-purchase then answers 404.
C7_VerifyNeverThrows ==
    /\ \A token \in AllPurchaseTokens :
          LET v == verifyPurchaseToken(redis, token)
          IN  /\ v.tag # "throw"
              /\ (\/ token = Null
                  \/ purchaseKey(token) \notin DOMAIN redis
                  \/ JSON_parse(redis[purchaseKey(token)].val) = ParseError)
                 => v = JsNull
    /\ (/\ out.req.kind = "verify"
        /\ out.req.token # Null
        /\ \/ purchaseKey(out.req.token) \notin DOMAIN redis
           \/ JSON_parse(redis[purchaseKey(out.req.token)].val) = ParseError)
       => out.res.status = 404

\* /verify-purchase answered 404 for the token whose record is not JSON, while
\* an issued token has expired and another was never issued
C7_Witness ==
    /\ out.req.kind = "verify"
    /\ out.req.token = Junk
    /\ purchaseKey(Junk) \in DOMAIN redis
    /\ out.res.status = 404
    /\ uuids.purchase = 1
    /\ purchaseKey(uuidv4(PurchaseUuids, 0)) \notin DOMAIN redis
    /\ verifyPurchaseToken(redis, uuidv4(PurchaseUuids, 0)) = JsNull
    /\ verifyPurchaseToken(redis, uuidv4(PurchaseUuids, 1)) = JsNull

(***************************************************************************)
(* Properties of the view token server.                                    *)
(***************************************************************************)
\* the step answers a /generate that passed verification
Generated(response, pc) ==
    /\ response.req.kind = "generate"
    /\ response.res.status = 200
    /\ response.req.pc = pc

\* C8: a /generate with a valid purchase token and an existing view token that is
\* still present answers with that same view token, leaves the set of keys and all
\* other records as they were (no additional view record, no identifier drawn) and
\* leaves the view's payload equal to the setup of this, the latest, call.
C8_GenerateUpdatesInPlace ==
    [][(/\ Generated(out', "gen_update")
        /\ viewKey(out'.req.viewToken) \in DOMAIN redis)
       => /\ out'.res.viewToken = out'.req.viewToken
          /\ uuids' = uuids
          /\ DOMAIN redis' = DOMAIN redis
          /\ \A k \in DOMAIN redis \ {viewKey(out'.req.viewToken)} : redis'[k] = redis[k]
          /\ JSON_parse(redis'[viewKey(out'.req.viewToken)].val).setupPayload
                = out'.req.setup]_vars

\* the second of two /generate calls with the same view token and different setups
\* has answered: one view record, holding the second call's setup
C8_Witness ==
    /\ Generated(out, "gen_update")
    /\ \E first \in Setups : first # out.req.setup /\ <<out.req.viewToken, first>> \in updated
    /\ out.res.viewToken = out.req.viewToken
    /\ {k \in DOMAIN redis : k[1] = "view"} = {viewKey(out.req.viewToken)}
    /\ JSON_parse(redis[viewKey(out.req.viewToken)].val).setupPayload = out.req.setup

\* C9: a /generate with a valid purchase token and no view token answers with a
\* fresh identifier and writes exactly one new record, view:<id>, holding the
\* setup payload and the metadata of the purchase token, with the view TTL; every
\* other record is left as it was.
C9_GenerateCreatesView ==
    [][(/\ Generated(out', "gen_create")
        /\ out'.req.viewToken = Null)
       => /\ out'.res.viewToken \notin Minted(ViewUuids, uuids.view) \cup {Junk, Null}
          /\ viewKey(out'.res.viewToken) \notin DOMAIN redis
          /\ DOMAIN redis' = DOMAIN redis \cup {viewKey(out'.res.viewToken)}
          /\ \A k \in DOMAIN redis : redis'[k] = redis[k]
          /\ redis'[viewKey(out'.res.viewToken)]
                = [val |-> JSON_stringify([setupPayload |-> out'.req.setup,
                                           orderMeta |-> out'.req.meta,
                                           createdAt |-> now]),
                   exp |-> now + VIEW_TTL]
          /\ purchaseKey(out'.req.token) \in DOMAIN redis
                => out'.req.meta = JSON_parse(redis[purchaseKey(out'.req.token)].val)]_vars

\* a /generate without a view token has answered one tick after the purchase token
\* was issued: the new view holds the payment identifier of the purchase
C9_Witness ==
    /\ Generated(out, "gen_create")
    /\ out.req.viewToken = Null
    /\ viewKey(out.res.viewToken) \in DOMAIN redis
    /\ JSON_parse(redis[viewKey(out.res.viewToken)].val).orderMeta.paymentId \in Pids
    /\ JSON_parse(redis[viewKey(out.res.viewToken)].val).orderMeta.createdAt < now
    /\ redis[viewKey(out.res.viewToken)].exp = now + VIEW_TTL

\* C10: a /generate with a view token that is not in the store does not fail: the
\* existence check sends the handler on to create exactly when the token is absent,
\* and the handler then answers 200 with a newly drawn identifier that differs from
\* the supplied one, stores the view under it and creates no record under the
\* supplied identifier.
C10_GenerateUnknownViewToken ==
    [][/\ \A g \in BagToSet(inflight') :
             (/\ g.kind = "generate"
              /\ g.viewToken # Null
              /\ CopiesIn(g, inflight') > CopiesIn(g, inflight))
             => /\ g.pc = "gen_update" => viewKey(g.viewToken) \in DOMAIN redis
                /\ g.pc = "gen_create" => viewKey(g.viewToken) \notin DOMAIN redis
       /\ (/\ Generated(out', "gen_create")
           /\ out'.req.viewToken # Null)
          => /\ out'.res.viewToken # out'.req.viewToken
             /\ out'.res.viewToken = NextViewToken
             /\ viewKey(out'.res.viewToken) \in DOMAIN redis'
             /\ viewKey(out'.req.viewToken) \in DOMAIN redis'
                   => viewKey(out'.req.viewToken) \in DOMAIN redis]_vars

\* a /generate with a made-up view token has answered with a new identifier, and
\* the store holds a record under the new identifier and none under the made-up one
C10_Witness ==
    /\ Generated(out, "gen_create")
    /\ out.req.viewToken = Junk
    /\ out.res.viewToken # Junk
    /\ viewKey(out.res.viewToken) \in DOMAIN redis
    /\ viewKey(Junk) \notin DOMAIN redis

(***************************************************************************)
(* Further properties of the strict token service.                         *)
(***************************************************************************)
\* the webhook handlers that stand before a store command after the step, and the
\* webhook request the step answered
WebhooksAfter(bag, response) ==
    {h \in BagToSet(bag) : h.kind = "webhook"}
        \cup (IF response.req.kind = "webhook" /\ response.res.status = 200
              THEN {response.req} ELSE {})

\* C13: a /razorpay-webhook request whose signature is not the HMAC of its body
\* under the webhook secret is answered 400 and changes nothing: no store write, no
\* identifier drawn, no handler left in flight; every webhook request that does go on
\* (to the mapping lookup, to issuePurchaseToken, to a 200) carries the right signature.
C13_BadSignatureRejected ==
    [][/\ (/\ out'.req.kind = "webhook"
           /\ "body" \in DOMAIN out'.req
           /\ out'.req.sig # Hmac(RAZORPAY_WEBHOOK_SECRET, out'.req.body))
          => /\ out'.res.status \in 400..499
             /\ redis' = redis
             /\ uuids' = uuids
             /\ inflight' = inflight
       /\ \A h \in WebhooksAfter(inflight', out') :
             h.sig = Hmac(RAZORPAY_WEBHOOK_SECRET,
                          [id |-> h.paymentId, event |-> h.event])]_vars

\* a forged delivery for a payment was answered 400 while the payment has no mapping
\* and no purchase record exists
C13_Witness ==
    /\ out.req.kind = "webhook"
    /\ out.res.status = 400
    /\ out.req.sig = Hmac("forged", out.req.body)
    /\ redis = EmptyStore
    /\ inflight = EmptyBag

PurchaseKeys(store) == {k \in DOMAIN store : k[1] = "purchase"}

\* C16: a purchase token record is never mutated: from its creation on, every step
\* leaves its value and its deadline as they are until the clock reaches the
\* deadline; the deadline is the record's createdAt plus PURCHASE_TTL, so once that
\* time has elapsed the record is gone and verifyPurchaseToken returns null.
C16_PurchaseRecordImmutable ==
    [][/\ \A k \in PurchaseKeys(redis) :
             /\ k \in DOMAIN redis' => redis'[k] = redis[k]
             /\ k \notin DOMAIN redis' => now' > now /\ redis[k].exp <= now'
       /\ \A k \in PurchaseKeys(redis') :
             /\ redis'[k].exp = JSON_parse(redis'[k].val).createdAt + PURCHASE_TTL
             /\ now' < redis'[k].exp
       /\ \A token \in AllPurchaseTokens :
             purchaseKey(token) \notin DOMAIN redis'
                => verifyPurchaseToken(redis', token) = JsNull]_vars

\* /verify-purchase answered 404 for a token an issuePurchaseToken call had returned,
\* after further requests for the same payment and PURCHASE_TTL ticks
C16_Witness ==
    /\ out.req.kind = "verify"
    /\ out.res.status = 404
    /\ \E c \in calls : c.token = out.req.token /\ c.createdMapping
    /\ Cardinality(calls) >= 2
    /\ now >= PURCHASE_TTL

\* C17: a /claim-return without a payment identifier is answered 400 and issues no
\* store command: no lookup, and the store is left as it was.
C17_ClaimReturnWithoutIdentifier ==
    [][(/\ out'.req.kind = "claim"
        /\ out'.req.paymentId = Null)
       => /\ out'.res.status = 400
          /\ out'.req.lookups = <<>>
          /\ redis' = redis]_vars

\* a /claim-return without identifier was answered 400 while a mapping is stored
C17_Witness ==
    /\ out.req.kind = "claim"
    /\ out.req.paymentId = Null
    /\ out.res.status = 400
    /\ PaymentKeys(redis) # {}

\* C18: verifyPurchaseToken is a pure read: a call with any argument, in any store
\* state (records present, expired, not JSON), and a /verify-purchase request leave
\* the store's keys, values and deadlines as they were.
C18_VerifyIsPureRead ==
    [][out'.req.kind \in {"verifyPurchaseToken", "verify"} => redis' = redis]_vars

\* verifyPurchaseToken returned the record of a token one tick before its deadline
C18_Witness ==
    /\ out.req.kind = "verifyPurchaseToken"
    /\ out.res.returned.tag = "value"
    /\ redis[purchaseKey(out.req.token)].exp = now + 1
    /\ now >= 1

\* C19: verifyPurchaseToken given no token (missing or empty) returns null without
\* a store lookup, and /verify-purchase then answers 400 without one.
C19_VerifyWithoutToken ==
    /\ (out.req.kind = "verifyPurchaseToken" /\ out.req.token = Null)
       => out.req.lookups = <<>> /\ out.res.returned = JsNull
    /\ (out.req.kind = "verify" /\ out.req.token = Null)
       => out.req.lookups = <<>> /\ out.res.status = 400

\* verifyPurchaseToken was called without a token while the store holds records
C19_Witness ==
    /\ out.req.kind = "verifyPurchaseToken"
    /\ out.req.token = Null
    /\ out.res.returned = JsNull
    /\ PurchaseKeys(redis) # {}

\* C20: when issuePurchaseToken's conditional write finds a mapping for its payment
\* identifier, the step leaves the store as it was (the mapping keeps its token and
\* its deadline), the call reports createdMapping false and its caller answers 200;
\* the call's own purchase record, unless it has expired, is stored and
\* verifyPurchaseToken returns it.
C20_IssueWithExistingMapping ==
    [][(/\ out'.call.token # Null
        /\ paymentKey(out'.req.paymentId) \in DOMAIN redis)
       => /\ redis' = redis
          /\ ~out'.call.createdMapping
          /\ out'.res.status = 200
          /\ now < out'.req.meta.createdAt + PURCHASE_TTL
                => verifyPurchaseToken(redis', out'.call.token) = JsValue(out'.req.meta)]_vars

\* a call returned createdMapping false; its token verifies and the mapping holds
\* the token of an earlier call, written one tick before
C20_Witness ==
    /\ IssueReturned
    /\ ~out.call.createdMapping
    /\ verifyPurchaseToken(redis, out.call.token).tag = "value"
    /\ paymentKey(out.req.paymentId) \in DOMAIN redis
    /\ redis[paymentKey(out.req.paymentId)].val # out.call.token
    /\ redis[paymentKey(out.req.paymentId)].exp
          < redis[purchaseKey(out.call.token)].exp

(***************************************************************************)
(* Further properties of the view token server.                            *)
(***************************************************************************)
\* C11: /generate does not consume the purchase token: no step of the view server
\* changes or removes a purchase record (only the clock does, at the deadline); a
\* /generate is refused (401, 403) only when it carries no token or one that
\* verifyPurchaseToken rejects, and a /generate that passed verification answers
\* 200; each creation answers with an identifier that no earlier call has drawn
\* and that has no record yet.
C11_GenerateDoesNotConsume ==
    [][/\ now' = now
          => \A k \in PurchaseKeys(redis) : k \in DOMAIN redis' /\ redis'[k] = redis[k]
       /\ out'.req.kind = "generate"
          => IF out'.req.token = Null \/ verifyPurchaseToken(redis, out'.req.token) = JsNull
             THEN out'.req.pc = "none" => out'.res.status \in {401, 403}
             ELSE out'.res.status = 200
       /\ Generated(out', "gen_create")
          => /\ out'.res.viewToken \notin Minted(ViewUuids, uuids.view)
             /\ viewKey(out'.res.viewToken) \notin DOMAIN redis
             /\ viewKey(out'.res.viewToken) \in DOMAIN redis']_vars

\* the second /generate without view token under the only purchase token ever issued
\* has answered: two view records, and the purchase record still stored
C11_Witness ==
    /\ Generated(out, "gen_create")
    /\ out.req.viewToken = Null
    /\ uuids = [purchase |-> 1, view |-> 2]
    /\ purchaseKey(out.req.token) \in DOMAIN redis
    /\ Cardinality({k \in DOMAIN redis : k[1] = "view"}) = 2
    /\ now >= 1

(***************************************************************************)
(* Properties of the strict token service under store failures.            *)
(***************************************************************************)
\* the step's request had a store command rejected
Failed(response) == "failed" \in DOMAIN response.req

\* C12: when the mapping write of an issuePurchaseToken call is rejected, the call
\* returns its token with createdMapping false, its caller answers 200 with the
\* claim URL of that token, the store is as it was, and the call's purchase record,
\* unless it has expired, is the one verifyPurchaseToken returns.
C12_MappingWriteFailureSwallowed ==
    [][(Failed(out') /\ out'.req.failed = "mapping")
       => /\ out'.call = [token |-> out'.req.token, createdMapping |-> FALSE]
          /\ out'.res.status = 200
          /\ out'.res.claimUrl = SetupClaimUrl(out'.req.token)
          /\ redis' = redis
          /\ now < out'.req.meta.createdAt + PURCHASE_TTL
                => verifyPurchaseToken(redis', out'.req.token) = JsValue(out'.req.meta)]_vars

\* a webhook's call had its mapping write rejected and the webhook answered 200; the
\* token verifies and the payment has no mapping
C12_Witness ==
    /\ Failed(out)
    /\ out.req.failed = "mapping"
    /\ out.req.kind = "webhook"
    /\ out.res.status = 200
    /\ verifyPurchaseToken(redis, out.req.token).tag = "value"
    /\ paymentKey(out.req.paymentId) \notin DOMAIN redis

\* C15 as stated: a request of /admin/issue-token, /verify-purchase,
\* /razorpay-webhook or /claim-return during which a store command other than the
\* mapping write is rejected is answered with a 5xx.
C15_StoreFailuresAnswer5xx ==
    (Failed(out) /\ out.req.failed # "mapping") => out.res.status \in 500..599

(***************************************************************************)
(* The purchase flow end to end.                                           *)
(***************************************************************************)
ViewKeys(store) == {k \in DOMAIN store : k[1] = "view"}

\* C14: the flow admin-issue, verify-purchase, generate, validate-view hands each
\* value on unchanged: /admin/issue-token answers with the token T1 whose record
\* holds the payment identifier it was given; /verify-purchase(T1) answers 200 with
\* the stored record, so with that payment identifier; a /generate with bearer T1
\* holds T1's record and the setup submitted and stores both under the view token V1
\* it answers with; no step changes a view record; /validate-view(V1) answers 200
\* with the stored view record, whose setupPayload is therefore the one submitted.
C14_EndToEnd ==
    [][/\ (out'.call.token # Null /\ out'.req.kind = "admin")
          => /\ out'.res.status = 200
             /\ out'.res.token = out'.call.token
             /\ now < out'.req.meta.createdAt + PURCHASE_TTL
                   => /\ purchaseKey(out'.call.token) \in DOMAIN redis'
                      /\ JSON_parse(redis'[purchaseKey(out'.call.token)].val).paymentId
                            = out'.req.paymentId
       /\ (/\ out'.req.kind = "verify"
           /\ out'.req.token # Null
           /\ purchaseKey(out'.req.token) \in DOMAIN redis)
          => /\ out'.res.status = 200
             /\ out'.res.meta = JSON_parse(redis[purchaseKey(out'.req.token)].val)
             /\ \A c \in calls :
                   c.token = out'.req.token => out'.res.meta.paymentId = c.paymentId
       /\ \A g \in BagToSet(inflight') :
             (g.kind = "generate" /\ CopiesIn(g, inflight') > CopiesIn(g, inflight))
             => /\ purchaseKey(g.token) \in DOMAIN redis
                /\ g.meta = JSON_parse(redis[purchaseKey(g.token)].val)
                /\ g.setup \in Setups
       /\ Generated(out', "gen_create")
          => /\ out'.res.viewUrl = ViewUrl(out'.res.viewToken)
             /\ viewKey(out'.res.viewToken) \notin DOMAIN redis
             /\ JSON_parse(redis'[viewKey(out'.res.viewToken)].val).setupPayload
                   = out'.req.setup
             /\ JSON_parse(redis'[viewKey(out'.res.viewToken)].val).orderMeta
                   = out'.req.meta
       /\ \A k \in ViewKeys(redis) : k \in DOMAIN redis' => redis'[k] = redis[k]
       /\ (/\ out'.req.kind = "validate"
           /\ out'.req.token # Null
           /\ viewKey(out'.req.token) \in DOMAIN redis)
          => /\ out'.res.status = 200
             /\ out'.res.payload = JSON_parse(redis[viewKey(out'.req.token)].val)]_vars

\* the end of the flow with one token and one view: /validate-view answered 200 with
\* a payload that holds a submitted setup and the record of the token that
\* /admin/issue-token returned for the payment
C14_Witness ==
    /\ out.req.kind = "validate"
    /\ out.res.status = 200
    /\ uuids = [purchase |-> 1, view |-> 1]
    /\ out.res.payload.setupPayload \in Setups
    /\ \E c \in calls :
          /\ c.kind = "admin"
          /\ purchaseKey(c.token) \in DOMAIN redis
          /\ JSON_parse(redis[purchaseKey(c.token)].val) = out.res.payload.orderMeta
          /\ out.res.payload.orderMeta.paymentId = c.paymentId

(***************************************************************************)
(* Store commands of issuePurchaseToken.                                   *)
(***************************************************************************)
\* the handlers that have just issued the first store command of a call
IssueBegun(before, after) ==
    {g \in BagToSet(after) : /\ g.pc \in {"issue_map", "call_map"}
                             /\ CopiesIn(g, after) > CopiesIn(g, before)}

\* C21: an issuePurchaseToken call changes the store in two steps and no other: its
\* first step writes one record, purchase:<token>, under a key that was absent; its
\* last step writes payment:<id> -> token if the metadata has a payment identifier
\* and the key is absent, and nothing if the metadata has none; every other step of
\* the service (but the clock's) leaves the store as it was.
C21_IssueWrites ==
    [][/\ \A g \in IssueBegun(inflight, inflight') :
             /\ purchaseKey(g.token) \notin DOMAIN redis
             /\ DOMAIN redis' = DOMAIN redis \cup {purchaseKey(g.token)}
             /\ \A k \in DOMAIN redis : redis'[k] = redis[k]
             /\ redis'[purchaseKey(g.token)]
                   = [val |-> JSON_stringify(g.meta), exp |-> now + PURCHASE_TTL]
       /\ out'.call.token # Null
          => LET k == paymentKey(out'.req.paymentId)
             IN  IF out'.req.paymentId = Null \/ k \in DOMAIN redis
                 THEN redis' = redis
                 ELSE /\ DOMAIN redis' = DOMAIN redis \cup {k}
                      /\ \A x \in DOMAIN redis : redis'[x] = redis[x]
                      /\ redis'[k] = [val |-> out'.call.token, exp |-> now + PURCHASE_TTL]
       /\ (/\ IssueBegun(inflight, inflight') = {}
           /\ out'.call.token = Null
           /\ now' = now)
          => redis' = redis]_vars

\* a call without payment identifier has returned: its record is stored, and the only
\* mapping is the one an /admin/issue-token call created
C21_Witness ==
    /\ out.req.kind = "issuePurchaseToken"
    /\ out.req.paymentId = Null
    /\ out.call.token # Null
    /\ ~out.call.createdMapping
    /\ purchaseKey(out.call.token) \in DOMAIN redis
    /\ \E c \in calls : c.kind = "admin" /\ c.createdMapping
    /\ Cardinality(PaymentKeys(redis)) = 1
    /\ Cardinality(PurchaseKeys(redis)) = 2

(***************************************************************************)
(* Webhook deliveries and the mapping.                                     *)
(***************************************************************************)
\* the webhook handlers that the step sent on to issuePurchaseToken
WebhooksSentOn(before, after) ==
    {g \in BagToSet(after) : /\ g.kind = "webhook"
                             /\ g.pc = "issue_begin"
                             /\ CopiesIn(g, after) > CopiesIn(g, before)}

\* the step answers a delivery right after its mapping lookup
WebhookAnsweredAtLookup(response) ==
    /\ response.req.kind = "webhook"
    /\ "pc" \in DOMAIN response.req
    /\ response.req.pc = "none"

\* C22: a /razorpay-webhook delivery is answered right after its mapping lookup only
\* when the lookup found a mapping: the answer is 200 'reused' with the claim URL of
\* the mapped token, and the step writes nothing (store, deadlines and identifiers
\* drawn are as before, no handler is left in flight); a delivery goes on to
\* issuePurchaseToken only when its lookup found no mapping, and only the purchase
\* records and mappings of such deliveries are written by webhook handlers.
C22_WebhookReusesMapping ==
    [][/\ WebhookAnsweredAtLookup(out')
          => /\ paymentKey(out'.req.paymentId) \in DOMAIN redis
             /\ out'.res = [status |-> 200, ok |-> TRUE, reused |-> TRUE,
                            claimUrl |-> SetupClaimUrl(redis[paymentKey(out'.req.paymentId)].val)]
             /\ redis' = redis
             /\ uuids' = uuids
             /\ inflight' = inflight
       /\ \A g \in WebhooksSentOn(inflight, inflight') :
             /\ paymentKey(g.paymentId) \notin DOMAIN redis
             /\ redis' = redis
             /\ uuids' = uuids
       /\ \A g \in IssueBegun(inflight, inflight') :
             g.kind = "webhook"
             => [g EXCEPT !.pc = "issue_begin", !.token = Null, !.meta = NoHandler.meta]
                   \in BagToSet(inflight)]_vars

\* a delivery was answered 'reused' with the token of an earlier delivery, and the
\* store holds that one purchase record, written one tick before
C22_Witness ==
    /\ WebhookAnsweredAtLookup(out)
    /\ out.res.status = 200
    /\ out.res.reused
    /\ \E c \in calls : /\ c.kind = "webhook"
                        /\ c.createdMapping
                        /\ out.res.claimUrl = SetupClaimUrl(c.token)
                        /\ PurchaseKeys(redis) = {purchaseKey(c.token)}
                        /\ redis[purchaseKey(c.token)].exp < now + PURCHASE_TTL
    /\ uuids.purchase = 1

(***************************************************************************)
(* Views and expiry.                                                       *)
(***************************************************************************)
\* C23 as stated: updateViewToken writes a view record only over a record that is
\* present at the moment of the write: its SET never creates view:<token>; and its
\* existence check sends the caller on to create exactly when the record is absent.
C23_UpdateOnlyIfPresent ==
    [][/\ Generated(out', "gen_update")
          => viewKey(out'.req.viewToken) \in DOMAIN redis
       /\ \A g \in BagToSet(inflight') :
             (/\ g.kind = "generate"
              /\ g.pc \in {"gen_update", "gen_create"}
              /\ g.viewToken # Null
              /\ CopiesIn(g, inflight') > CopiesIn(g, inflight))
             => (g.pc = "gen_create" <=> viewKey(g.viewToken) \notin DOMAIN redis)]_vars

\* the /generate handlers the step admitted: they stand before their first store
\* command after verification
GenerateAdmitted(before, after) ==
    IF BagCardinality(after) > BagCardinality(before)
    THEN {g \in BagToSet(after) : /\ g.kind = "generate"
                                  /\ CopiesIn(g, after) > CopiesIn(g, before)}
    ELSE {}

\* the step created or changed a view record
ViewWritten(before, after) ==
    \E k \in ViewKeys(after) : k \notin DOMAIN before \/ after[k] # before[k]

\* C24: /generate writes a view record only for a request whose purchase token passed
\* verification: a request without token is answered 401 'missing_purchase_token', a
\* request whose token has no record (never issued, expired) or a record that is not
\* JSON is answered 403 'invalid_or_expired_purchase_token', and these answers leave
\* the store, the identifiers drawn and the handlers in flight as they were; a request
\* is admitted only with a token whose record is stored and parses, and only admitted
\* requests create or change view records.
C24_GenerateGate ==
    [][/\ (out'.req.kind = "generate" /\ out'.req.pc = "none")
          => /\ redis' = redis
             /\ uuids' = uuids
             /\ inflight' = inflight
             /\ IF out'.req.token = Null
                THEN out'.res = [status |-> 401, error |-> "missing_purchase_token"]
                ELSE /\ out'.res = [status |-> 403,
                                    error |-> "invalid_or_expired_purchase_token"]
                     /\ \/ purchaseKey(out'.req.token) \notin DOMAIN redis
                        \/ JSON_parse(redis[purchaseKey(out'.req.token)].val) = ParseError
       /\ \A g \in GenerateAdmitted(inflight, inflight') :
             /\ g.token # Null
             /\ purchaseKey(g.token) \in DOMAIN redis
             /\ JSON_parse(redis[purchaseKey(g.token)].val) # ParseError
             /\ g.meta = JSON_parse(redis[purchaseKey(g.token)].val)
             /\ redis' = redis
       /\ ViewWritten(redis, redis')
          => /\ Generated(out', "gen_update") \/ Generated(out', "gen_create")
             /\ out'.req \in BagToSet(inflight)]_vars

\* a /generate with the token whose record is not JSON was answered 403, after a
\* /generate with an issued token, which has expired since, has created a view
C24_Witness ==
    /\ out.req.kind = "generate"
    /\ out.req.token = Junk
    /\ purchaseKey(Junk) \in DOMAIN redis
    /\ out.res.status = 403
    /\ uuids.purchase = 1
    /\ purchaseKey(uuidv4(PurchaseUuids, 0)) \notin DOMAIN redis
    /\ Cardinality(ViewKeys(redis)) = 1

\* C25: the three kinds of record live and die independently.  A view record stays
\* as it is until the clock reaches its own deadline, createdAt plus VIEW_TTL,
\* whatever happens to purchase records; /validate-view answers 200 with the stored
\* payload for every view that is present, whether or not the purchase record it was
\* made under still is; and a tick of the clock, which may expire views, leaves
\* every purchase record and mapping that has not reached its own deadline as it was.
C25_ViewIndependentOfPurchase ==
    [][/\ \A k \in ViewKeys(redis) :
             /\ k \in DOMAIN redis' => redis'[k] = redis[k]
             /\ k \notin DOMAIN redis' => now' > now /\ redis[k].exp <= now'
       /\ \A k \in ViewKeys(redis') :
             redis'[k].exp = JSON_parse(redis'[k].val).createdAt + VIEW_TTL
       /\ (/\ out'.req.kind = "validate"
           /\ out'.req.token # Null
           /\ viewKey(out'.req.token) \in DOMAIN redis)
          => /\ out'.res.status = 200
             /\ out'.res.payload = JSON_parse(redis[viewKey(out'.req.token)].val)
             /\ now < out'.res.payload.createdAt + VIEW_TTL
       /\ now' > now
          => \A k \in PurchaseKeys(redis) \cup PaymentKeys(redis) :
                redis[k].exp > now' => k \in DOMAIN redis' /\ redis'[k] = redis[k]]_vars

\* /validate-view answered 200 with a view made under the only purchase token issued,
\* PURCHASE_TTL or more after the token was issued: the token's record and mapping
\* are gone, and so is the view the store held at the start
C25_Witness ==
    /\ out.req.kind = "validate"
    /\ out.res.status = 200
    /\ uuids.purchase = 1
    /\ PurchaseKeys(redis) = {}
    /\ PaymentKeys(redis) = {}
    /\ viewKey(uuidv4(ViewUuids, 0)) \notin DOMAIN redis
    /\ \E c \in calls : /\ c.kind = "admin"
                        /\ c.createdMapping
                        /\ out.res.payload.orderMeta.paymentId = c.paymentId
                        /\ out.res.payload.orderMeta.createdAt + PURCHASE_TTL <= now

\* C26: /validate-view with a token answers 410 'view_token_not_found' when the view
\* record is absent (never created, or expired), and 200 with the stored record when
\* it is present; in both cases, and without a token, it leaves the store (keys,
\* values, deadlines), the identifiers drawn and the handlers in flight as they were.
C26_ValidateViewReadsOnly ==
    [][out'.req.kind = "validate"
       => /\ redis' = redis
          /\ uuids' = uuids
          /\ inflight' = inflight
          /\ out'.req.token # Null
             => IF viewKey(out'.req.token) \in DOMAIN redis
                THEN out'.res = [status |-> 200, success |-> TRUE,
                                 payload |-> JSON_parse(redis[viewKey(out'.req.token)].val)]
                ELSE out'.res = [status |-> 410, error |-> "view_token_not_found"]]_vars

\* /validate-view answered 410 for the view that has expired, while the store holds
\* another view, which a /generate has updated
C26_Witness ==
    /\ out.req.kind = "validate"
    /\ out.req.token = uuidv4(ViewUuids, 0)
    /\ out.res.status = 410
    /\ now >= 1
    /\ \E k \in ViewKeys(redis) : "updatedAt" \in DOMAIN JSON_parse(redis[k].val)

(***************************************************************************)
(* The admin secret.                                                       *)
(***************************************************************************)
\* the step answers an /admin/issue-token request before any store command
AdminAnsweredAtOnce(response) ==
    /\ response.req.kind = "admin"
    /\ "pc" \notin DOMAIN response.req
    /\ "failed" \notin DOMAIN response.req

\* C27: an /admin/issue-token request whose secret is missing or is not the admin
\* secret is answered 401 'unauthorized' and changes nothing: no store write (no
\* purchase record, no mapping), no identifier drawn, no handler left in flight; every
\* request that goes on to issuePurchaseToken carries the admin secret.
C27_AdminUnauthorized ==
    [][/\ AdminAnsweredAtOnce(out')
          => /\ out'.req.secret # ADMIN_SECRET
             /\ out'.res = [status |-> 401, error |-> "unauthorized"]
             /\ redis' = redis
             /\ uuids' = uuids
             /\ inflight' = inflight
       /\ \A g \in IssueBegun(inflight, inflight') :
             g.kind = "admin" => g.secret = ADMIN_SECRET
       /\ (out'.call.token # Null /\ out'.req.kind = "admin")
          => out'.req.secret = ADMIN_SECRET]_vars

\* a request without secret was answered 401 after one with the secret had issued a
\* token: the store holds that token's record and mapping and nothing else
C27_Witness ==
    /\ AdminAnsweredAtOnce(out)
    /\ out.req.secret = Null
    /\ out.res.status = 401
    /\ uuids.purchase = 1
    /\ inflight = EmptyBag
    /\ Cardinality(PurchaseKeys(redis)) = 1
    /\ Cardinality(PaymentKeys(redis)) = 1
    /\ DOMAIN redis = PurchaseKeys(redis) \cup PaymentKeys(redis)

(***************************************************************************)
(* The permissive token service.                                           *)
(***************************************************************************)
\* the handlers the step has moved to program point pc
MovedTo(before, after, pc) ==
    {g \in BagToSet(after) : g.pc = pc /\ CopiesIn(g, after) > CopiesIn(g, before)}

WrittenOnly(before, after, k, v, e) ==
    /\ DOMAIN after = DOMAIN before \cup {k}
    /\ \A x \in DOMAIN before \ {k} : after[x] = before[x]
    /\ after[k] = [val |-> v, exp |-> e]

ClaimRedirected(response) ==
    /\ response.req.kind = "claim"
    /\ response.res.status = 302

\* C29 as stated: a mapping never outlives the purchase record it names: the token
\* of every mapping in the store has its purchase record in the store, and whenever
\* /claim-return redirects with token T, verifyPurchaseToken accepts T.
C29_MappingNeverOutlivesRecord ==
    /\ \A k \in PaymentKeys(redis) : purchaseKey(redis[k].val) \in DOMAIN redis
    /\ ClaimRedirected(out)
       => verifyPurchaseToken(redis, redis[paymentKey(out.req.paymentId)].val).tag = "value"

\* C29: a mapping names a token that issuePurchaseToken drew, and it never expires
\* before that token's purchase record: while the record is present it belongs to
\* the mapping's payment and its deadline is at most the mapping's (the mapping is
\* written after the record, with the same TTL, and nothing extends either).  A
\* /claim-return redirects to the mapped token whether or not the record is present:
\* verifyPurchaseToken accepts the token exactly when the record has not expired.
C29_MappingExpiresNoEarlier ==
    /\ \A k \in PaymentKeys(redis) :
          /\ redis[k].val \in Minted(PurchaseUuids, uuids.purchase)
          /\ redis[k].exp <= now + PURCHASE_TTL
          /\ purchaseKey(redis[k].val) \in DOMAIN redis
             => /\ redis[purchaseKey(redis[k].val)].exp <= redis[k].exp
                /\ JSON_parse(redis[purchaseKey(redis[k].val)].val).paymentId = k[2]
    /\ ClaimRedirected(out)
       => LET T == redis[paymentKey(out.req.paymentId)].val
          IN  /\ out.res.location = SetupClaimUrl(T)
              /\ IF purchaseKey(T) \in DOMAIN redis
                 THEN /\ verifyPurchaseToken(redis, T).tag = "value"
                      /\ verifyPurchaseToken(redis, T).value.paymentId = out.req.paymentId
                 ELSE verifyPurchaseToken(redis, T) = JsNull

\* /claim-return redirected to the mapped token after the token's purchase record
\* had expired: the mapping, written one tick after the record, is still there
C29_Witness ==
    /\ ClaimRedirected(out)
    /\ paymentKey(out.req.paymentId) \in DOMAIN redis
    /\ out.res.location = SetupClaimUrl(redis[paymentKey(out.req.paymentId)].val)
    /\ purchaseKey(redis[paymentKey(out.req.paymentId)].val) \notin DOMAIN redis
    /\ redis[paymentKey(out.req.paymentId)].exp = now + 1

(***************************************************************************)
(* The uploader, src/server/index.js: POST /upload commits the files of a  *)
(* multipart request to uploads/<id>/ and then the share descriptor to     *)
(* shares/<id>.json, each with one call of the GitHub contents API.        *)
(***************************************************************************)
\* the identifiers uuidv4().replace(/-/g, '') yields
UploadUuids == <<"u1", "u2", "u3", "u4", "u5", "u6">>

\* file names are sequences of characters; <<>> is a missing or empty name
NameA == <<"a">>
NameB == <<"b">>
NameSlashA == <<"/", "/", "a">>
NameFile == <<"f", "i", "l", "e">>

\* the files multer hands over (req.files): originalname and buffer
FileA == [originalname |-> NameA, buffer |-> "x"]
FileB == [originalname |-> NameB, buffer |-> "y"]
FileSlashA == [originalname |-> NameSlashA, buffer |-> "z"]
FileUnnamed == [originalname |-> <<>>, buffer |-> "w"]

\* the multipart requests sent: files and the text fields bg, useDefaultMusic and
\* sender (receiver, message and theme are carried like sender)
UploadRequests ==
    {[files |-> <<>>, bg |-> <<>>, useDefaultMusic |-> Null, sender |-> Null],
     [files |-> <<>>, bg |-> <<>>, useDefaultMusic |-> "true", sender |-> "s"],
     [files |-> <<FileA>>, bg |-> NameA, useDefaultMusic |-> Null, sender |-> "s"],
     [files |-> <<FileA, FileB>>, bg |-> NameB, useDefaultMusic |-> "true", sender |-> Null],
     [files |-> <<FileSlashA, FileA>>, bg |-> NameSlashA, useDefaultMusic |-> Null,
      sender |-> Null],
     [files |-> <<FileUnnamed, FileB>>, bg |-> <<>>, useDefaultMusic |-> Null, sender |-> "s"]}

\* name.replace(/^\/+/, '')
RECURSIVE StripLeadingSlashes(_)
StripLeadingSlashes(name) ==
    IF name # <<>> /\ Head(name) = "/" THEN StripLeadingSlashes(Tail(name)) ELSE name

\* (f.originalname || 'file').replace(/^\/+/, '')
UploadName(f) ==
    StripLeadingSlashes(IF f.originalname = <<>> THEN NameFile ELSE f.originalname)

\* encodeURIComponent(name), on the characters a name is made of here
EncodeURIComponent(name) ==
    [i \in 1..Len(name) |-> IF name[i] = "/" THEN "%2F" ELSE name[i]]

\* `uploads/${id}/${name}` and `shares/${id}.json`
UploadPath(id, name) == <<"uploads", id, name>>
SharePath(id) == <<"shares", id, <<".", "j", "s", "o", "n">>>>

\* repoInfo.data.default_branch || 'main'
Branch == "main"
\* rawBase + `uploads/${id}/` + encodeURIComponent(name)
RawUrl(id, name) == <<"raw", Branch, "uploads", id, EncodeURIComponent(name)>>

\* buffer.toString('base64') and its inverse
ToBase64(content) == <<"base64", content>>
FromBase64(encoded) == encoded[2]

\* createOrUpdateFileContents({ path, content }): the file at path holds the content
CommitFile(files, path, content) ==
    [p \in DOMAIN files \cup {path} |-> IF p = path THEN content ELSE files[p]]

\* the entry pushed onto `uploaded` for file f
UploadedEntry(id, f) ==
    [name |-> UploadName(f), path |-> UploadPath(id, UploadName(f)),
     url |-> RawUrl(id, UploadName(f))]

\* uploaded.find(u => u.name === bgName): the first match, or Null
RECURSIVE FindByName(_, _)
FindByName(uploaded, bgName) ==
    IF uploaded = <<>> THEN Null
    ELSE IF Head(uploaded).name = bgName THEN [name |-> bgName, url |-> Head(uploaded).url]
    ELSE FindByName(Tail(uploaded), bgName)

\* the background track of the share: the default music, the uploaded file named
\* by bg, or none
Background(h) ==
    IF h.useDefaultMusic = "true" THEN [name |-> "music.mp3", url |-> "pages/music.mp3"]
    ELSE IF h.bg # <<>> THEN FindByName(h.uploaded, h.bg)
    ELSE Null

\* shareObj (sender || undefined: an absent sender stays absent)
ShareObj(h, t) ==
    [id |-> h.id, created_at |-> t, sender |-> h.sender, files |-> h.uploaded,
     background |-> Background(h)]

\* the answers of /upload
NoFilesResponse == [status |-> 400, error |-> "No files uploaded"]
UploadErrorResponse(command) == [status |-> 500, error |-> command]
UploadedResponse(h, t) ==
    [status |-> 200, id |-> h.id, pagesURL |-> <<"pages", "view.html", h.id>>,
     share |-> ShareObj(h, t)]

\* the handler's position after the files it has committed
AfterFiles(h) == IF Len(h.uploaded) = Len(h.files) THEN "share" ELSE "file"

\* POST /upload up to its first await (lines 26-42): 400 without files unless the
\* default music is used, else an identifier is drawn and repos.get is called
Upload(request) ==
    /\ Idle
    /\ IF Len(request.files) = 0 /\ request.useDefaultMusic # "true"
       THEN /\ out' = Sent([kind |-> "upload", files |-> request.files], NoFilesResponse)
            /\ UNCHANGED <<accepted, inflight>>
       ELSE /\ Accept(MaxUploads)
            /\ inflight' = inflight (+) SetToBag({
                   [kind |-> "upload", pc |-> "repo_get",
                    id |-> uuidv4(UploadUuids, accepted),
                    files |-> request.files, bg |-> request.bg,
                    useDefaultMusic |-> request.useDefaultMusic,
                    sender |-> request.sender, uploaded |-> <<>>]})
            /\ UNCHANGED out
    /\ UNCHANGED <<redis, now, uuids, calls, updated, repo>>

\* octokit.repos.get answers (lines 42-45)
UploadRepoGet(h) ==
    /\ Idle
    /\ h \in Handlers
    /\ h.kind = "upload"
    /\ h.pc = "repo_get"
    /\ inflight' = (inflight (-) SetToBag({h})) (+) SetToBag({[h EXCEPT !.pc = AfterFiles(h)]})
    /\ UNCHANGED <<redis, now, uuids, accepted, out, calls, updated, repo>>

\* octokit.repos.get is rejected: the catch answers 500 (lines 107-110)
UploadRepoGetFails(h) ==
    /\ Idle
    /\ h \in Handlers
    /\ h.kind = "upload"
    /\ h.pc = "repo_get"
    /\ out' = Sent(Failing(h, "repos.get"), UploadErrorResponse("repos.get"))
    /\ End(h)
    /\ UNCHANGED <<redis, now, uuids, accepted, calls, updated, repo>>

\* a loop that swallows a rejected file commit: the file is pushed onto `uploaded`
\* all the same and the loop goes on
UploadFileFailsSkipped(h) ==
    /\ Idle
    /\ h \in Handlers
    /\ h.kind = "upload"
    /\ h.pc = "file"
    /\ LET f == h.files[Len(h.uploaded) + 1]
           next == [h EXCEPT !.uploaded = Append(@, UploadedEntry(h.id, f))]
       IN inflight' = (inflight (-) SetToBag({h})) (+)
                      SetToBag({[next EXCEPT !.pc = AfterFiles(next)]})
    /\ UNCHANGED <<redis, now, uuids, accepted, out, calls, updated, repo>>

\* one turn of the loop (lines 47-65): the next file is committed and pushed onto
\* `uploaded`
UploadFile(h) ==
    /\ Idle
    /\ h \in Handlers
    /\ h.kind = "upload"
    /\ h.pc = "file"
    /\ LET f == h.files[Len(h.uploaded) + 1]
           next == [h EXCEPT !.uploaded = Append(@, UploadedEntry(h.id, f))]
       IN /\ repo' = CommitFile(repo, UploadPath(h.id, UploadName(f)), ToBase64(f.buffer))
          /\ inflight' = (inflight (-) SetToBag({h})) (+)
                         SetToBag({[next EXCEPT !.pc = AfterFiles(next)]})
    /\ UNCHANGED <<redis, now, uuids, accepted, out, calls, updated>>

\* the commit of the next file is rejected: the loop is left through the catch,
\* which answers 500 (lines 107-110)
UploadFileFails(h) ==
    /\ Idle
    /\ h \in Handlers
    /\ h.kind = "upload"
    /\ h.pc = "file"
    /\ out' = Sent(Failing(h, "file"), UploadErrorResponse("file"))
    /\ End(h)
    /\ UNCHANGED <<redis, now, uuids, accepted, calls, updated, repo>>

\* the share descriptor is built and committed, and the request is answered
\* (lines 67-106)
UploadShare(h) ==
    /\ Idle
    /\ h \in Handlers
    /\ h.kind = "upload"
    /\ h.pc = "share"
    /\ repo' = CommitFile(repo, SharePath(h.id), ToBase64(ShareObj(h, now)))
    /\ out' = Sent(h, UploadedResponse(h, now))
    /\ End(h)
    /\ UNCHANGED <<redis, now, uuids, accepted, calls, updated>>

\* the commit of the share descriptor is rejected (lines 96-110)
UploadShareFails(h) ==
    /\ Idle
    /\ h \in Handlers
    /\ h.kind = "upload"
    /\ h.pc = "share"
    /\ out' = Sent(Failing(h, "share"), UploadErrorResponse("share"))
    /\ End(h)
    /\ UNCHANGED <<redis, now, uuids, accepted, calls, updated, repo>>

\* the uploader, its requests running side by side
NextUpload ==
    \/ Tick
    \/ Deliver
    \/ \E request \in UploadRequests : Upload(request)
    \/ \E h \in Handlers : UploadRepoGet(h)
    \/ \E h \in Handlers : UploadRepoGetFails(h)
    \/ \E h \in Handlers : UploadFile(h)
    \/ \E h \in Handlers : UploadFileFails(h)
    \/ \E h \in Handlers : UploadShare(h)
    \/ \E h \in Handlers : UploadShareFails(h)

SpecUpload == Init /\ [][NextUpload]_vars

(***************************************************************************)
(* C30: the share descriptor is committed after the files it lists.        *)
(***************************************************************************)
\* the paths of the repository below uploads/<id>/
UploadsOf(files, id) == {p \in DOMAIN files : p[1] = "uploads" /\ p[2] = id}

\* the share descriptor stored for id
ShareOf(files, id) == FromBase64(files[SharePath(id)])

\* the entries a descriptor holds for the files of a request, in their order
ListsFiles(share, id, files) ==
    /\ Len(share.files) = Len(files)
    /\ \A i \in 1..Len(files) :
          /\ share.files[i].name = UploadName(files[i])
          /\ share.files[i].path = UploadPath(id, UploadName(files[i]))

\* the upload handlers in flight with this identifier
UploadsInFlight(handlers, id) ==
    {g \in BagToSet(handlers) : g.kind = "upload" /\ g.id = id}

\* C30: in the uploader's /upload, shares/<id>.json is committed only by the
\* request that drew id, in the step that answers 200, after every file of that
\* request has been committed; the descriptor lists exactly those files, one entry
\* per file of the request, and every path it lists is in the repository, which
\* holds nothing else below uploads/<id>/.  When a file commit fails, the request
\* answers 500 and is over, and there is no share descriptor for its id, nor is
\* any written later, since only a request in flight writes one.
C30_ShareAfterFiles ==
    [][/\ \A id \in {UploadUuids[i] : i \in 1..Len(UploadUuids)} :
             /\ (SharePath(id) \in DOMAIN repo' /\ SharePath(id) \notin DOMAIN repo) =>
                   /\ out'.req \in UploadsInFlight(inflight, id)
                   /\ UploadsInFlight(inflight', id) = {}
                   /\ out'.res.status = 200
                   /\ out'.res.share = ShareOf(repo', id)
                   /\ ListsFiles(ShareOf(repo', id), id, out'.req.files)
                   /\ {ShareOf(repo', id).files[i].path :
                         i \in 1..Len(ShareOf(repo', id).files)} = UploadsOf(repo, id)
                   /\ UploadsOf(repo', id) = UploadsOf(repo, id)
             /\ SharePath(id) \in DOMAIN repo =>
                   /\ SharePath(id) \in DOMAIN repo'
                   /\ repo'[SharePath(id)] = repo[SharePath(id)]
                   /\ UploadsOf(repo', id) = UploadsOf(repo, id)
                   /\ UploadsInFlight(inflight', id) = {}
        /\ \A h \in BagToSet(inflight) :
             (/\ h.kind = "upload"
              /\ h.pc = "file"
              /\ CopiesIn(h, inflight') < CopiesIn(h, inflight)
              /\ repo' = repo) =>
                   /\ out'.res.status = 500
                   /\ out'.req.id = h.id
                   /\ SharePath(h.id) \notin DOMAIN repo'
                   /\ UploadsInFlight(inflight', h.id) = {}]_vars

\* the second file commit of a request failed: the request answered 500, its first
\* file is in the repository and there is no share descriptor for its id
C30_Witness ==
    /\ out.req.kind = "upload"
    /\ out.res.status = 500
    /\ "failed" \in DOMAIN out.req
    /\ out.req.failed = "file"
    /\ Len(out.req.uploaded) = 1
    /\ Len(out.req.files) = 2
    /\ out.req.uploaded[1].path \in DOMAIN repo
    /\ SharePath(out.req.id) \notin DOMAIN repo

============================================================================
